---- MODULE Spec2Model ----
(***************************************************************************)
(* Falling-sand cellular automaton (enhanced variant, Grid class).         *)
(* The grid is a flat array of material ids with a parallel array of       *)
(* metadata objects {life, temp}.  One update() tick is three sweeps.  A   *)
(* step of the first two sweeps runs the loop up to and including the next *)
(* iteration that dispatches a rule, with every helper the rule calls; the *)
(* third sweep is one step.                                                *)
(* Temperatures are fixed-point, in thousandths of a degree Celsius.       *)
(* Math.random() is a nondeterministic choice at every place it is read.   *)
(***************************************************************************)
EXTENDS Integers, Sequences, FiniteSets, TLC

\* ---------------------------------------------------------------- bounds
width == 2
height == 3
MaxGravity == 2
MaxTicks == 1
MaxCalls == 2
MaxFireTicks == 2

MaxFallTicks == 3

MaxSinkTicks == 3

MaxDim == 5

MaxSceneTicks == 1

MaxSteamTicks == 2

MaxCoord == 3

MaxLineSteps == 16

MaxTouches == 3

\* ------------------------------------------------------------- materials
EMPTY == 0
SAND == 1
WATER == 2
WALL == 3
FIRE == 4
OIL == 5
PLANT == 6
ACID == 7
ICE == 8
STEAM == 9

Materials == EMPTY .. STEAM

\* densities, in tenths (0.5 -> 5, 2.2 -> 22, ...)
density(m) ==
  CASE m = EMPTY -> 0
    [] m = SAND -> 30
    [] m = WATER -> 20
    [] m = WALL -> 100
    [] m = FIRE -> 5
    [] m = OIL -> 15
    [] m = PLANT -> 10
    [] m = ACID -> 22
    [] m = ICE -> 18
    [] m = STEAM -> 3

flammable(m) == m \in {OIL, PLANT}

\* one lifespan for every material that has one
lifespanFlat(m) == IF m \in {FIRE, ACID, STEAM} THEN 100 ELSE 0

lifespan(m) ==
  CASE m = FIRE -> 100
    [] m = ACID -> 500
    [] m = STEAM -> 200
    [] OTHER -> 0

\* one degree Celsius in the fixed-point unit
Deg == 1000

Ambient == 20 * Deg

\* --------------------------------------------------------------- state
VARIABLES
  grid,             \* this.grid: index -> material id
  metadata,         \* this.metadata: index -> [life, temp, oid]; oid is the
                    \* identity of the metadata object (swap exchanges references)
  gravityStrength,  \* this.parent.gravityStrength
  pc,               \* position of update(): [phase, k]
  pre,              \* grid and metadata as they were when the running (or last) update() began
  visits,           \* per metadata object: rule invocations in the current sweep
  ev,               \* the last call made or loop iteration run, and what it did
  err,              \* TRUE once a call has raised a TypeError
  ticks,            \* completed update() calls
  calls,            \* calls made by the input layer
  pointer           \* SandGame: isMouseDown, lastMouseX, lastMouseY, activeMaterial,
                    \* brushSize, currentTool, drawingStart (<<>> is null)

vars == <<grid, metadata, gravityStrength, pc, pre, visits, ev, err, ticks, calls,
          pointer>>

N == width * height

Indices == 0 .. (N - 1)

freshMeta(i) == [life |-> 0, temp |-> Ambient, oid |-> i]

newGrid == [i \in Indices |-> EMPTY]

newMetadata == [i \in Indices |-> freshMeta(i)]

\* A working copy of the Grid object's arrays while a call runs, with the
\* log of swaps and conversions it performed.
State(g, m) == [g |-> g, m |-> m, log |-> <<>>, err |-> FALSE]

Here == State(grid, metadata)

\* JavaScript array element write: an index outside the array adds an element.
ArrWrite(a, k, v) ==
  IF k \in DOMAIN a THEN [a EXCEPT ![k] = v]
  ELSE [j \in (DOMAIN a) \cup {k} |-> IF j = k THEN v ELSE a[j]]

\* JavaScript % (the sign follows the dividend) and Math.floor(a / b), b > 0
JsRem(a, b) == IF a >= 0 THEN a % b ELSE -((-a) % b)

FloorDiv(a, b) == a \div b

\* truncation toward zero of a / b, b > 0 (fixed-point product rounding)
Trunc(a, b) == IF a >= 0 THEN a \div b ELSE -((-a) \div b)

\* a bounds test on the flat index alone
inBoundsFlat(x, y) == y * width + x >= 0 /\ y * width + x < width * height

\* ------------------------------------------------------------ cell store
inBounds(x, y) == x >= 0 /\ x < width /\ y >= 0 /\ y < height

gridLength(st) == Cardinality(DOMAIN st.g)

inRange(st, i) == i >= 0 /\ i < gridLength(st)

get(st, x, y) == IF inBounds(x, y) THEN st.g[y * width + x] ELSE -1

\* entries of the log of a working state: an exchange of two cells, and a
\* write of a material id at one cell
SwapEvent(st, i1, i2) ==
  [t |-> "swap", a |-> i1, b |-> i2, ma |-> st.g[i1], mb |-> st.g[i2],
   o |-> st.m[i1].oid, p |-> st.m[i2].oid]

ConvEvent(st, i, to) ==
  [t |-> "conv", a |-> i, b |-> i, ma |-> st.g[i], mb |-> to,
   o |-> st.m[i].oid, p |-> st.m[i].oid]

\* set that initialises the temperature but not the lifespan
setMetaTempOnly(st, index, value) ==
  IF value \in {FIRE, ACID, STEAM} /\ index \notin DOMAIN st.m
    THEN [st EXCEPT !.err = TRUE]
  ELSE IF value = FIRE THEN [st EXCEPT !.m[index].temp = 400 * Deg]
  ELSE IF value = STEAM THEN [st EXCEPT !.m[index].temp = 110 * Deg]
  ELSE st

setMeta(st, index, value) ==
  IF value \in {FIRE, ACID, STEAM} /\ index \notin DOMAIN st.m
    THEN [st EXCEPT !.err = TRUE]
  ELSE IF value = FIRE
    THEN [st EXCEPT !.m[index].temp = 400 * Deg, !.m[index].life = lifespan(FIRE)]
  ELSE IF value = ACID
    THEN [st EXCEPT !.m[index].life = lifespan(ACID)]
  ELSE IF value = STEAM
    THEN [st EXCEPT !.m[index].temp = 110 * Deg, !.m[index].life = lifespan(STEAM)]
  ELSE st

\* set as it would be without the test of x and y
setNoCheck(st, x, y, value) ==
  LET index == y * width + x
  IN setMeta([st EXCEPT !.g = ArrWrite(st.g, index, value)], index, value)

set(st, x, y, value) ==
  IF inBounds(x, y)
    THEN LET index == y * width + x
         IN setMeta([st EXCEPT !.g = ArrWrite(st.g, index, value),
                               !.log = Append(st.log, ConvEvent(st, index, value))],
                    index, value)
    ELSE st

\* swap as it would be if it exchanged the materials only
swapGridOnly(st, i1, i2) ==
  IF inRange(st, i1) /\ inRange(st, i2)
    THEN [st EXCEPT !.g = [st.g EXCEPT ![i1] = st.g[i2], ![i2] = st.g[i1]],
                    !.log = Append(st.log, SwapEvent(st, i1, i2))]
    ELSE st

\* swap as it would be without the temporary for the material
swapNoTemp(st, i1, i2) ==
  IF inRange(st, i1) /\ inRange(st, i2)
    THEN [st EXCEPT !.g = [st.g EXCEPT ![i1] = st.g[i2]],
                    !.m = [st.m EXCEPT ![i1] = st.m[i2], ![i2] = st.m[i1]],
                    !.log = Append(st.log, SwapEvent(st, i1, i2))]
    ELSE st

\* swap as it would be without the test of i1 and i2
swapNoCheck(st, i1, i2) ==
  IF i1 \in DOMAIN st.g /\ i2 \in DOMAIN st.g
    THEN [st EXCEPT !.g = [st.g EXCEPT ![i1] = st.g[i2], ![i2] = st.g[i1]],
                    !.m = [st.m EXCEPT ![i1] = st.m[i2], ![i2] = st.m[i1]],
                    !.log = Append(st.log, SwapEvent(st, i1, i2))]
    ELSE [st EXCEPT !.g = ArrWrite(ArrWrite(st.g, i1, -1), i2, -1)]

swap(st, i1, i2) ==
  IF inRange(st, i1) /\ inRange(st, i2)
    THEN [st EXCEPT !.g = [st.g EXCEPT ![i1] = st.g[i2], ![i2] = st.g[i1]],
                    !.m = [st.m EXCEPT ![i1] = st.m[i2], ![i2] = st.m[i1]],
                    !.log = Append(st.log, SwapEvent(st, i1, i2))]
    ELSE st

\* the cell store of the basic variant: one array, no metadata
basicSet(g, x, y, value) ==
  IF x >= 0 /\ x < width /\ y >= 0 /\ y < height
    THEN ArrWrite(g, y * width + x, value)
    ELSE g

basicGet(g, x, y) ==
  IF x >= 0 /\ x < width /\ y >= 0 /\ y < height THEN g[y * width + x] ELSE -1

basicSwapCopy(g, i1, i2) ==
  IF i1 >= 0 /\ i1 < Cardinality(DOMAIN g) /\ i2 >= 0 /\ i2 < Cardinality(DOMAIN g)
    THEN [g EXCEPT ![i2] = g[i1]]
    ELSE g

basicSwap(g, i1, i2) ==
  IF i1 >= 0 /\ i1 < Cardinality(DOMAIN g) /\ i2 >= 0 /\ i2 < Cardinality(DOMAIN g)
    THEN [g EXCEPT ![i1] = g[i2], ![i2] = g[i1]]
    ELSE g

isEmpty(st, index) ==
  IF index < 0 \/ index >= gridLength(st) THEN FALSE ELSE st.g[index] = EMPTY

isType(st, index, type) ==
  IF index < 0 \/ index >= gridLength(st) THEN FALSE ELSE st.g[index] = type

\* canDisplace as it would be with >= for >
canDisplaceGe(st, i1, i2) ==
  IF ~inBounds(JsRem(i1, width), FloorDiv(i1, width))
     \/ ~inBounds(JsRem(i2, width), FloorDiv(i2, width))
    THEN FALSE
  ELSE IF st.g[i2] = EMPTY THEN TRUE
  ELSE IF st.g[i2] = WALL THEN FALSE
  ELSE density(st.g[i1]) >= density(st.g[i2])

canDisplace(st, i1, i2) ==
  IF ~inBounds(JsRem(i1, width), FloorDiv(i1, width))
     \/ ~inBounds(JsRem(i2, width), FloorDiv(i2, width))
    THEN FALSE
  ELSE IF st.g[i2] = EMPTY THEN TRUE
  ELSE IF st.g[i2] = WALL THEN FALSE
  ELSE density(st.g[i1]) > density(st.g[i2])

\* write of a material id at an index the rule has already bounds-checked
convert(st, i, to) ==
  [st EXCEPT !.g[i] = to, !.log = Append(st.log, ConvEvent(st, i, to))]

\* a choice between the outcomes of one Math.random() comparison
Either(A, B) == A \cup B

\* index at which the metadata object oid now lives
posOf(m, oid) == CHOOSE i \in DOMAIN m : m[i].oid = oid

\* ------------------------------------------------------ neighbour queries
getNeighborIndices(x, y) ==
  LET offs == << <<-1, -1>>, <<0, -1>>, <<1, -1>>, <<-1, 0>>, <<1, 0>>,
                 <<-1, 1>>, <<0, 1>>, <<1, 1>> >>
      ok(k) == inBounds(x + offs[k][1], y + offs[k][2])
      idx(k) == (y + offs[k][2]) * width + (x + offs[k][1])
      RECURSIVE build(_)
      build(k) == IF k > 8 THEN <<>>
                  ELSE IF ok(k) THEN <<idx(k)>> \o build(k + 1)
                  ELSE build(k + 1)
  IN build(1)

isNearMaterial(st, x, y, materialType) ==
  \E k \in 1 .. Len(getNeighborIndices(x, y)) :
    LET n == getNeighborIndices(x, y)[k]
    IN inRange(st, n) /\ st.g[n] = materialType

\* sand that falls into Empty cells only
RECURSIVE sandLoopEmptyOnly(_, _, _, _, _, _)
sandLoopEmptyOnly(st, i, x, y, g, gravity) ==
  IF g >= gravity \/ y + g >= height - 1 THEN st
  ELSE IF isEmpty(st, i + (g * width) + width)
    THEN sandLoopEmptyOnly(swap(st, i + (g * width), i + (g * width) + width),
                           i, x, y, g + 1, gravity)
  ELSE st

\* ------------------------------------------------------------------ sand
RECURSIVE sandLoop(_, _, _, _, _, _)
sandLoop(st, i, x, y, g, gravity) ==
  IF g >= gravity THEN st
  ELSE LET currentY == y + g
           currentI == i + (g * width)
           below == currentI + width
           belowLeft == below - 1
           belowRight == below + 1
       IN IF currentY >= height - 1 THEN st
          ELSE IF canDisplace(st, currentI, below)
            THEN sandLoop(swap(st, currentI, below), i, x, y, g + 1, gravity)
          ELSE IF x > 0 /\ canDisplace(st, currentI, belowLeft)
            THEN sandLoop(swap(st, currentI, belowLeft), i, x, y, g + 1, gravity)
          ELSE IF x < width - 1 /\ canDisplace(st, currentI, belowRight)
            THEN sandLoop(swap(st, currentI, belowRight), i, x, y, g + 1, gravity)
          ELSE st

\* updateSand with a single sub-step whatever the gravity strength
updateSandOnce(st, i, x, y, gravity) == {sandLoop(st, i, x, y, 0, 1)}

\* updateSand with one sub-step more than the gravity strength
updateSandExtra(st, i, x, y, gravity) == {sandLoop(st, i, x, y, 0, gravity + 1)}

updateSand(st, i, x, y, gravity) == {sandLoop(st, i, x, y, 0, gravity)}

\* ------------------------------------------------- neighbour interactions
extinguishOne(st, n) ==
  IF inRange(st, n) /\ st.g[n] = FIRE
    THEN Either({st},
                {[convert(st, n, STEAM) EXCEPT !.m[n].life = lifespan(STEAM),
                                               !.m[n].temp = 110 * Deg]})
    ELSE {st}

RECURSIVE extinguishFrom(_, _, _)
extinguishFrom(S, nbrs, k) ==
  IF k > Len(nbrs) THEN S
  ELSE extinguishFrom(UNION {extinguishOne(s, nbrs[k]) : s \in S}, nbrs, k + 1)

extinguishNearbySources(st, i, x, y) ==
  extinguishFrom({st}, getNeighborIndices(x, y), 1)

heatOne(st, n) ==
  IF inRange(st, n) /\ st.g[n] # EMPTY
    THEN LET heated == [st EXCEPT !.m[n].temp = @ + 5 * Deg]
         IN IF flammable(heated.g[n])
              THEN Either({heated},
                          {[convert(heated, n, FIRE) EXCEPT !.m[n].life = lifespan(FIRE),
                                                            !.m[n].temp = 400 * Deg]})
              ELSE {heated}
    ELSE {st}

RECURSIVE heatFrom(_, _, _)
heatFrom(S, nbrs, k) ==
  IF k > Len(nbrs) THEN S
  ELSE heatFrom(UNION {heatOne(s, nbrs[k]) : s \in S}, nbrs, k + 1)

heatAndIgniteNearbySources(st, i, x, y) ==
  heatFrom({st}, getNeighborIndices(x, y), 1)

dissolveOne(st, n) ==
  IF inRange(st, n) /\ st.g[n] \notin {EMPTY, ACID, STEAM}
    THEN Either({st}, {convert(st, n, EMPTY)})
    ELSE {st}

RECURSIVE dissolveFrom(_, _, _)
dissolveFrom(S, nbrs, k) ==
  IF k > Len(nbrs) THEN S
  ELSE dissolveFrom(UNION {dissolveOne(s, nbrs[k]) : s \in S}, nbrs, k + 1)

dissolveNearbySources(st, i, x, y) ==
  dissolveFrom({st}, getNeighborIndices(x, y), 1)

freezeOne(st, n) ==
  IF inRange(st, n) /\ st.g[n] = WATER
    THEN LET cooled == [st EXCEPT !.m[n].temp = @ - 1 * Deg]
         IN IF cooled.m[n].temp < 0
              THEN Either({cooled}, {convert(cooled, n, ICE)})
              ELSE {cooled}
    ELSE {st}

RECURSIVE freezeFrom(_, _, _)
freezeFrom(S, nbrs, k) ==
  IF k > Len(nbrs) THEN S
  ELSE freezeFrom(UNION {freezeOne(s, nbrs[k]) : s \in S}, nbrs, k + 1)

freezeNearbySources(st, i, x, y) ==
  freezeFrom({st}, getNeighborIndices(x, y), 1)

growPlantAny(st, x, y) ==
  LET neighbors == {d \in {-1, 0, 1} \X {-1, 0, 1} :
                      /\ d # <<0, 0>>
                      /\ inBounds(x + d[1], y + d[2])}
  IN {set(st, x + d[1], y + d[2], PLANT) : d \in neighbors}

growPlant(st, x, y) ==
  LET neighbors == {d \in {-1, 0, 1} \X {-1, 0, 1} :
                      /\ d # <<0, 0>>
                      /\ inBounds(x + d[1], y + d[2])
                      /\ get(st, x + d[1], y + d[2]) = EMPTY}
  IN IF neighbors # {}
       THEN {set(st, x + d[1], y + d[2], PLANT) : d \in neighbors}
       ELSE {st}

\* ----------------------------------------------------------------- water
\* the movement part of one sub-step: the set of <<state, moved>> outcomes
waterMove(st, currentI, currentX) ==
  LET below == currentI + width
      left == currentI - 1
      right == currentI + 1
      belowLeft == below - 1
      belowRight == below + 1
      leftFirst ==
        IF currentX > 0 /\ canDisplace(st, currentI, left)
          THEN <<swap(st, currentI, left), TRUE>>
        ELSE IF currentX < width - 1 /\ canDisplace(st, currentI, right)
          THEN <<swap(st, currentI, right), TRUE>>
        ELSE <<st, FALSE>>
      rightFirst ==
        IF currentX < width - 1 /\ canDisplace(st, currentI, right)
          THEN <<swap(st, currentI, right), TRUE>>
        ELSE IF currentX > 0 /\ canDisplace(st, currentI, left)
          THEN <<swap(st, currentI, left), TRUE>>
        ELSE <<st, FALSE>>
  IN IF canDisplace(st, currentI, below)
       THEN {<<swap(st, currentI, below), TRUE>>}
     ELSE IF currentX > 0 /\ canDisplace(st, currentI, belowLeft)
       THEN {<<swap(st, currentI, belowLeft), TRUE>>}
     ELSE IF currentX < width - 1 /\ canDisplace(st, currentI, belowRight)
       THEN {<<swap(st, currentI, belowRight), TRUE>>}
     ELSE Either({leftFirst}, {rightFirst})

waterEvaporate(st, currentI) ==
  IF st.m[currentI].temp > 99 * Deg
    THEN Either({st},
                {[convert(st, currentI, STEAM)
                    EXCEPT !.m[currentI].life = lifespan(STEAM),
                           !.m[currentI].temp = 110 * Deg]})
    ELSE {st}

waterFreeze(st, currentI) ==
  IF st.m[currentI].temp < 0
    THEN Either({st}, {convert(st, currentI, ICE)})
    ELSE {st}

\* evaporation, freezing and extinguishing of one sub-step
waterEffects(st, currentI, currentX, currentY) ==
  UNION {UNION {extinguishNearbySources(s2, currentI, currentX, currentY)
                  : s2 \in waterFreeze(s1, currentI)}
           : s1 \in waterEvaporate(st, currentI)}

RECURSIVE waterLoop(_, _, _, _, _, _)
waterLoop(st, i, x, y, g, gravity) ==
  IF g >= gravity THEN {st}
  ELSE LET currentY == y + g
           currentI == i + (g * width)
           currentX == x
       IN IF currentY >= height - 1 THEN {st}
          ELSE UNION {
                 LET after == waterEffects(mv[1], currentI, currentX, currentY)
                 IN IF mv[2]
                      THEN UNION {waterLoop(s, i, x, y, g + 1, gravity) : s \in after}
                      ELSE after
                 : mv \in waterMove(st, currentI, currentX)}

updateWater(st, i, x, y, gravity) == waterLoop(st, i, x, y, 0, gravity)

\* ------------------------------------------------------------------- oil
oilMove(st, currentI, currentX) ==
  LET below == currentI + width
      left == currentI - 1
      right == currentI + 1
      belowLeft == below - 1
      belowRight == below + 1
  IN IF canDisplace(st, currentI, below)
       THEN {<<swap(st, currentI, below), TRUE>>}
     ELSE {<<st, FALSE>>}
          \cup (IF currentX > 0 /\ canDisplace(st, currentI, belowLeft)
                  THEN {<<swap(st, currentI, belowLeft), TRUE>>} ELSE {})
          \cup (IF currentX < width - 1 /\ canDisplace(st, currentI, belowRight)
                  THEN {<<swap(st, currentI, belowRight), TRUE>>} ELSE {})
          \cup (IF currentX > 0 /\ canDisplace(st, currentI, left)
                  THEN {<<swap(st, currentI, left), TRUE>>} ELSE {})
          \cup (IF currentX < width - 1 /\ canDisplace(st, currentI, right)
                  THEN {<<swap(st, currentI, right), TRUE>>} ELSE {})

oilIgnite(st, currentI, currentX, currentY) ==
  IF st.m[currentI].temp > 220 * Deg \/ isNearMaterial(st, currentX, currentY, FIRE)
    THEN Either({st},
                {[convert(st, currentI, FIRE)
                    EXCEPT !.m[currentI].life = lifespan(FIRE),
                           !.m[currentI].temp = 400 * Deg]})
    ELSE {st}

RECURSIVE oilLoop(_, _, _, _, _, _)
oilLoop(st, i, x, y, g, gravity) ==
  IF g >= gravity THEN {st}
  ELSE LET currentY == y + g
           currentI == i + (g * width)
           currentX == x
       IN IF currentY >= height - 1 THEN {st}
          ELSE UNION {
                 LET after == oilIgnite(mv[1], currentI, currentX, currentY)
                 IN IF mv[2]
                      THEN UNION {oilLoop(s, i, x, y, g + 1, gravity) : s \in after}
                      ELSE after
                 : mv \in oilMove(st, currentI, currentX)}

updateOil(st, i, x, y, gravityStrength0) ==
  oilLoop(st, i, x, y, 0, IF gravityStrength0 - 1 > 1 THEN gravityStrength0 - 1 ELSE 1)

\* ------------------------------------------------------------------ acid
acidMove(st, currentI, currentX) ==
  LET below == currentI + width
      left == currentI - 1
      right == currentI + 1
      belowLeft == below - 1
      belowRight == below + 1
  IN IF canDisplace(st, currentI, below)
       THEN {<<swap(st, currentI, below), TRUE>>}
     ELSE IF currentX > 0 /\ canDisplace(st, currentI, belowLeft)
       THEN {<<swap(st, currentI, belowLeft), TRUE>>}
     ELSE IF currentX < width - 1 /\ canDisplace(st, currentI, belowRight)
       THEN {<<swap(st, currentI, belowRight), TRUE>>}
     ELSE {<<st, FALSE>>}
          \cup (IF currentX > 0 /\ canDisplace(st, currentI, left)
                  THEN {<<swap(st, currentI, left), TRUE>>} ELSE {})
          \cup (IF currentX < width - 1 /\ canDisplace(st, currentI, right)
                  THEN {<<swap(st, currentI, right), TRUE>>} ELSE {})

RECURSIVE acidLoop(_, _, _, _, _, _)
acidLoop(st, i, x, y, g, gravity) ==
  IF g >= gravity THEN {st}
  ELSE LET currentY == y + g
           currentI == i + (g * width)
           currentX == x
       IN IF currentY >= height - 1 THEN {st}
          ELSE UNION {
                 IF mv[2] THEN acidLoop(mv[1], i, x, y, g + 1, gravity) ELSE {mv[1]}
                 : mv \in acidMove(st, currentI, currentX)}

updateAcid(st, i, x, y, gravity) ==
  LET aged == [st EXCEPT !.m[i].life = @ - 1]
  IN IF aged.m[i].life <= 0
       THEN {convert(aged, i, EMPTY)}
       ELSE UNION {acidLoop(s, i, x, y, 0, gravity)
                     : s \in dissolveNearbySources(aged, i, x, y)}

\* ------------------------------------------------------------------- ice
iceMelt(st, i) ==
  IF st.m[i].temp > 0
    THEN LET melted == [convert(st, i, WATER) EXCEPT !.m[i].temp = 2 * Deg]
         IN IF st.m[i].temp >= 100 * Deg THEN {melted} ELSE Either({st}, {melted})
    ELSE {st}

updateIce(st, i, x, y) ==
  UNION {Either({s}, freezeNearbySources(s, i, x, y)) : s \in iceMelt(st, i)}

\* ------------------------------------------------------------------ fire
\* Math.floor(Math.random() * 100) ranges over 0..99; the extremes are drawn
FlickerChoices == {0, 99}

riseMoveJump(st, i, x, y) ==
  IF y > 1 /\ isEmpty(st, i - 2 * width)
    THEN <<swap(st, i, i - 2 * width), i - 2 * width, TRUE>>
    ELSE <<st, i, FALSE>>

\* the rise of fire or steam: <<state, index now holding the rule's meta object>>
riseMove(st, i, x, y) ==
  LET above == i - width
      aboveLeft == above - 1
      aboveRight == above + 1
  IN IF y > 0 /\ isEmpty(st, above) THEN <<swap(st, i, above), above, TRUE>>
     ELSE IF y > 0 /\ x > 0 /\ isEmpty(st, aboveLeft)
       THEN <<swap(st, i, aboveLeft), aboveLeft, TRUE>>
     ELSE IF y > 0 /\ x < width - 1 /\ isEmpty(st, aboveRight)
       THEN <<swap(st, i, aboveRight), aboveRight, TRUE>>
     ELSE <<st, i, FALSE>>

fireSmoke(st, i, y) ==
  LET above == i - width
  IN IF y > 0 /\ isEmpty(st, above)
       THEN Either({st}, {[convert(st, above, STEAM)
                             EXCEPT !.m[above].life = lifespan(STEAM)]})
       ELSE {st}

updateFire(st, i, x, y) ==
  LET aged == [st EXCEPT !.m[i].life = @ - 1]
  IN IF aged.m[i].life <= 0
       THEN {[convert(aged, i, EMPTY) EXCEPT !.m[i].temp = 20 * Deg]}
       ELSE LET mv == riseMove(aged, i, x, y)
                p == mv[2]
            IN UNION {UNION {{[s2 EXCEPT !.m[p].temp = (350 + f) * Deg]
                               : f \in FlickerChoices}
                             : s2 \in fireSmoke(s1, i, y)}
                      : s1 \in heatAndIgniteNearbySources(mv[1], i, x, y)}

\* ----------------------------------------------------------------- steam
steamMove(st, i, x, y) ==
  LET left == i - 1
      right == i + 1
      up == riseMove(st, i, x, y)
  IN IF up[3] THEN {up}
     ELSE (IF x > 0 /\ isEmpty(st, left)
             THEN {<<swap(st, i, left), left, TRUE>>} ELSE {})
          \cup (IF x < width - 1 /\ isEmpty(st, right)
                  THEN {<<swap(st, i, right), right, TRUE>>}
                  ELSE {<<st, i, FALSE>>})

updateSteam(st, i, x, y) ==
  LET aged == [st EXCEPT !.m[i].life = @ - 1]
      gone == [convert(aged, i, EMPTY) EXCEPT !.m[i].temp = 20 * Deg]
      condensed == [convert(aged, i, WATER) EXCEPT !.m[i].temp = 20 * Deg]
  IN IF aged.m[i].life <= 0 \/ aged.m[i].temp < 90 * Deg
       THEN IF aged.m[i].temp < 90 * Deg THEN Either({condensed}, {gone}) ELSE {gone}
       ELSE {[mv[1] EXCEPT !.m[mv[2]].temp = @ - 200] : mv \in steamMove(aged, i, x, y)}

\* ----------------------------------------------------------------- plant
plantIgnite(st, i, x, y) ==
  IF st.m[i].temp > 150 * Deg \/ isNearMaterial(st, x, y, FIRE)
    THEN Either({st}, {[convert(st, i, FIRE) EXCEPT !.m[i].life = lifespan(FIRE),
                                                    !.m[i].temp = 400 * Deg]})
    ELSE {st}

updatePlant(st, i, x, y) ==
  LET grown == IF isNearMaterial(st, x, y, WATER)
                 THEN Either({st}, growPlant(st, x, y))
                 ELSE {st}
  IN UNION {plantIgnite(s, i, x, y) : s \in grown}

\* an exchange that warms the neighbour without cooling the cell
exchangeOneSided(st, i, n) ==
  IF inRange(st, n) /\ st.g[n] # EMPTY /\ st.m[i].temp # st.m[n].temp
    THEN LET half == Trunc((st.m[i].temp - st.m[n].temp) * 5, 100)
         IN [st EXCEPT !.m[n].temp = @ + half]
    ELSE st

\* ----------------------------------------------------------- temperature
exchange(st, i, n) ==
  IF inRange(st, n) /\ st.g[n] # EMPTY /\ st.m[i].temp # st.m[n].temp
    THEN LET half == Trunc((st.m[i].temp - st.m[n].temp) * 5, 100)
         IN [st EXCEPT !.m[i].temp = @ - half, !.m[n].temp = @ + half]
    ELSE st

\* the loop over the neighbours; each intermediate state is a value (the one
\* element of a set) before the next iteration reads it
RECURSIVE exchangeFrom(_, _, _, _)
exchangeFrom(st, i, nbrs, k) ==
  IF k > Len(nbrs) THEN st
  ELSE CHOOSE r \in {exchangeFrom(s, i, nbrs, k + 1) : s \in {exchange(st, i, nbrs[k])}} : TRUE

relax(st, i) ==
  IF st.m[i].temp # 20 * Deg
    THEN [st EXCEPT !.m[i].temp = @ + Trunc(20 * Deg - @, 1000)]
    ELSE st

updateTemperature(st, i) ==
  IF i < 0 \/ i >= gridLength(st) \/ st.g[i] = EMPTY THEN st
  ELSE LET x == JsRem(i, width)
           y == FloorDiv(i, width)
       IN relax(exchangeFrom(st, i, getNeighborIndices(x, y), 1), i)

\* ------------------------------------------------------------ rasterizer
Disc(radius) ==
  {d \in (-radius .. radius) \X (-radius .. radius) :
     d[1] * d[1] + d[2] * d[2] <= radius * radius}

\* set() on every cell of a set of distinct cells (each loop writes one material,
\* so the loop order does not matter); an exception ends the loop
RECURSIVE setAll(_, _, _)
setAll(st, cells, material) ==
  IF st.err \/ cells = {} THEN st
  ELSE LET c == CHOOSE cell \in cells : TRUE
       IN setAll(set(st, c[1], c[2], material), cells \ {c}, material)

setCircleOver(st, x, y, material, radius, mask) ==
  LET hit == {d \in (-radius .. radius) \X (-radius .. radius) :
                /\ d[1] * d[1] + d[2] * d[2] <= radius * radius
                /\ d \in mask
                /\ inBounds(x + d[1], y + d[2])}
  IN setAll(st, {<<x + d[1], y + d[2]>> : d \in hit}, material)

\* mask: the offsets <<i, j>> at which Math.random() < probability came out true.
\* The cells the double loop writes are distinct and all get the same material.
setCircle(st, x, y, material, radius, mask) ==
  LET hit == {d \in (-radius .. radius) \X (-radius .. radius) :
                /\ d[1] * d[1] + d[2] * d[2] <= radius * radius
                /\ d \in mask
                /\ inBounds(x + d[1], y + d[2])
                /\ get(st, x + d[1], y + d[2]) = EMPTY}
  IN setAll(st, {<<x + d[1], y + d[2]>> : d \in hit}, material)

\* setCircle of the basic variant, on its one array
RECURSIVE basicSetAll(_, _, _)
basicSetAll(g, cells, material) ==
  IF cells = {} THEN g
  ELSE LET c == CHOOSE cell \in cells : TRUE
       IN basicSetAll(basicSet(g, c[1], c[2], material), cells \ {c}, material)

basicSetCircle(g, x, y, material, radius, mask) ==
  LET hit == {d \in (-radius .. radius) \X (-radius .. radius) :
                /\ d[1] * d[1] + d[2] * d[2] <= radius * radius
                /\ d \in mask
                /\ inBounds(x + d[1], y + d[2])
                /\ basicGet(g, x + d[1], y + d[2]) = EMPTY}
  IN basicSetAll(g, {<<x + d[1], y + d[2]>> : d \in hit}, material)

Abs(a) == IF a < 0 THEN -a ELSE a

\* d = [dx, dy, sx, sy], computed once before the loop
RECURSIVE lineFrom(_, _, _, _, _, _, _, _, _)
lineFrom(st, x1, y1, x2, y2, d, err0, material, thickness) ==
  LET stamped == setCircle(st, x1, y1, material, thickness, Disc(thickness))
      e2 == 2 * err0
      stepX == e2 > -d.dy
      err1 == IF stepX THEN err0 - d.dy ELSE err0
      nx == IF stepX THEN x1 + d.sx ELSE x1
      stepY == e2 < d.dx
      err2 == IF stepY THEN err1 + d.dx ELSE err1
      ny == IF stepY THEN y1 + d.sy ELSE y1
  IN IF stamped.err \/ (x1 = x2 /\ y1 = y2) THEN stamped
     ELSE lineFrom(stamped, nx, ny, x2, y2, d, err2, material, thickness)

drawLine(st, x1, y1, x2, y2, material, thickness) ==
  LET d == [dx |-> Abs(x2 - x1), dy |-> Abs(y2 - y1),
            sx |-> IF x1 < x2 THEN 1 ELSE -1, sy |-> IF y1 < y2 THEN 1 ELSE -1]
  IN lineFrom(st, x1, y1, x2, y2, d, d.dx - d.dy, material, thickness)

\* The centres the loop of drawLine stamps, in order.  The loop has no bound of
\* its own: steps counts the iterations left before the walk is cut short, and
\* a walk cut short does not end at <<x2, y2>>.
RECURSIVE centresFrom(_, _, _, _, _, _, _)
centresFrom(x1, y1, x2, y2, d, err0, steps) ==
  LET e2 == 2 * err0
      stepX == e2 > -d.dy
      err1 == IF stepX THEN err0 - d.dy ELSE err0
      nx == IF stepX THEN x1 + d.sx ELSE x1
      stepY == e2 < d.dx
      err2 == IF stepY THEN err1 + d.dx ELSE err1
      ny == IF stepY THEN y1 + d.sy ELSE y1
  IN IF (x1 = x2 /\ y1 = y2) \/ steps = 0 THEN << <<x1, y1>> >>
     ELSE << <<x1, y1>> >> \o centresFrom(nx, ny, x2, y2, d, err2, steps - 1)

\* one axis after the other
lineCentresAxis(x1, y1, x2, y2) ==
  LET dx == Abs(x2 - x1)
      dy == Abs(y2 - y1)
      sx == IF x1 < x2 THEN 1 ELSE -1
      sy == IF y1 < y2 THEN 1 ELSE -1
  IN [k \in 1 .. (dx + dy + 1) |->
        IF k <= dx + 1 THEN <<x1 + sx * (k - 1), y1>>
        ELSE <<x2, y1 + sy * (k - 1 - dx)>>]

lineCentres(x1, y1, x2, y2) ==
  LET d == [dx |-> Abs(x2 - x1), dy |-> Abs(y2 - y1),
            sx |-> IF x1 < x2 THEN 1 ELSE -1, sy |-> IF y1 < y2 THEN 1 ELSE -1]
  IN centresFrom(x1, y1, x2, y2, d, d.dx - d.dy, MaxLineSteps)

Min(a, b) == IF a < b THEN a ELSE b

Max(a, b) == IF a > b THEN a ELSE b

drawRect(st, x1, y1, x2, y2, material, filled) ==
  LET startX == Min(x1, x2)
      endX == Max(x1, x2)
      startY == Min(y1, y2)
      endY == Max(y1, y2)
      inside == {c \in (startX .. endX) \X (startY .. endY) :
                   inBounds(c[1], c[2]) /\ get(st, c[1], c[2]) = EMPTY}
      border == {c \in (startX .. endX) \X {startY, endY} : inBounds(c[1], c[2])}
                \cup {c \in {startX, endX} \X ((startY + 1) .. (endY - 1)) :
                        inBounds(c[1], c[2])}
  IN IF filled THEN setAll(st, inside, material) ELSE setAll(st, border, material)

\* ---------------------------------------------------------------- presets
PresetNames == {"barrier", "funnel", "container", "hourglass", "maze"}

\* cells of the hourglass sand loop (cy in y-24 .. y-13, cx in x-14 .. x+13)
hourglassSandCells(x, y) ==
  {c \in ((x - 14) .. (x + 13)) \X ((y - 24) .. (y - 13)) : inBounds(c[1], c[2])}

\* A maze divider lies at -halfSize + (40 / 3) * k from the centre: three times
\* that coordinate is pos3.  When it is no integer, get() reads an element the
\* array does not have (undefined), which is not EMPTY, and nothing is drawn.
\* (The flat index y * width + x of a divider cell is a whole number only on
\* a grid whose width is a multiple of 3, which the grids here are not.)
mazeLine(st, fixed3, from, to, horizontal) ==
  IF fixed3 % 3 # 0 THEN st
  ELSE IF horizontal
    THEN drawLine(st, from, fixed3 \div 3, to, fixed3 \div 3, WALL, 1)
    ELSE drawLine(st, fixed3 \div 3, from, fixed3 \div 3, to, WALL, 1)

\* rnd.sand: hourglass cells whose Math.random() < 0.7 came out true;
\* rnd.gap: Math.floor(Math.random() * (size - 2 * gap)), in 0 .. 19
createPreset(st, preset, x, y, rnd) ==
  LET material == WALL
      halfSize == 20
      mazeH(s, k) ==
        LET yPos3 == 3 * (y - halfSize) + 40 * k
            gapPos == x - halfSize + 10 + rnd.gap
        IN mazeLine(mazeLine(s, yPos3, x - halfSize, gapPos, TRUE),
                    yPos3, gapPos + 10, x + halfSize, TRUE)
      mazeV(s, k) ==
        LET xPos3 == 3 * (x - halfSize) + 40 * k
            gapPos == y - halfSize + 10 + rnd.gap
        IN mazeLine(mazeLine(s, xPos3, y - halfSize, gapPos, FALSE),
                    xPos3, gapPos + 10, y + halfSize, FALSE)
  IN CASE preset = "barrier" ->
            drawRect(st, x - 20, y - 3, x + 20, y + 3, material, TRUE)
       [] preset = "funnel" ->
            drawLine(drawLine(st, x - 15, y - 15, x, y + 5, material, 1),
                     x + 15, y - 15, x, y + 5, material, 1)
       [] preset = "container" ->
            drawLine(drawRect(st, x - 20, y - 20, x + 20, y + 20, material, FALSE),
                     x - 5, y - 20, x + 5, y - 20, EMPTY, 1)
       [] preset = "hourglass" ->
            LET s1 == drawRect(st, x - 15, y - 25, x + 15, y - 10, material, FALSE)
                s2 == drawRect(s1, x - 15, y + 10, x + 15, y + 25, material, FALSE)
                s3 == drawLine(s2, x - 10, y - 10, x, y, material, 1)
                s4 == drawLine(s3, x + 10, y - 10, x, y, material, 1)
                s5 == drawLine(s4, x - 10, y + 10, x, y, material, 1)
                s6 == drawLine(s5, x + 10, y + 10, x, y, material, 1)
            IN setAll(s6, hourglassSandCells(x, y) \cap rnd.sand, SAND)
       [] preset = "maze" ->
            LET s1 == drawRect(st, x - halfSize, y - halfSize, x + halfSize,
                               y + halfSize, material, FALSE)
            IN mazeV(mazeV(mazeH(mazeH(s1, 1), 2), 1), 2)
       [] OTHER -> st

clear(st) == [st EXCEPT !.g = newGrid, !.m = newMetadata]

\* ------------------------------------------------------------- the system
\* the pointer fields of a SandGame after its constructor
newPointer ==
  [isMouseDown |-> FALSE, lastMouseX |-> -1, lastMouseY |-> -1,
   activeMaterial |-> SAND, brushSize |-> 3,
   currentTool |-> "brush", drawingStart |-> <<>>]

Event(op, name, args, log, mat) ==
  [op |-> op, name |-> name, args |-> args, log |-> log, mat |-> mat]

noVisits == [o \in Indices |-> [first |-> 0, second |-> 0]]

Init ==
  /\ grid = newGrid
  /\ metadata = newMetadata
  /\ gravityStrength = 1
  /\ pc = [phase |-> "idle", k |-> 0]
  /\ pre = [g |-> newGrid, m |-> newMetadata]
  /\ visits = noVisits
  /\ ev = Event("new", "", <<>>, <<>>, -1)
  /\ err = FALSE
  /\ ticks = 0
  /\ calls = 0
  /\ pointer = newPointer

Idle == pc.phase = "idle"

\* the arrays and the error flag after a call or a loop iteration
Commit(st) ==
  /\ grid' = st.g
  /\ metadata' = st.m
  /\ err' = (err \/ st.err)

\* a call made by the input layer between two frames
Called(st, op, name, out) ==
  /\ Idle
  /\ calls < MaxCalls
  /\ Commit(st)
  /\ ev' = Event(op, name, <<>>, st.log, IF out THEN 1 ELSE 0)
  /\ calls' = calls + 1
  /\ UNCHANGED <<gravityStrength, pc, pre, visits, ticks, pointer>>

Cells == (0 .. (width - 1)) \X (0 .. (height - 1))

\* coordinates off the grid; <<width, 0>> is the one whose flat index is in range
OutPoints == {<<width, 0>>, <<0, -1>>, <<-1, height>>}

PointInputs == Cells \cup OutPoints

IndexInputs == {-1, 0, 1, N - 1, N}

\* centres of a disc inside the grid, across an edge and wholly outside
CircleCentres == {<<0, 1>>, <<width, 1>>, <<-2, -2>>}

CircleMaterials == {SAND, EMPTY}

MaskChoices(radius) ==
  {Disc(radius), {<<0, 0>>}, Disc(radius) \ {<<0, 0>>}}

LineStarts == {<<-1, 1>>, <<0, 0>>}

LineEnds == {<<width, height - 1>>, <<0, 0>>}

LineMaterials == {WALL, EMPTY}

ThicknessInputs == {0, 1}

RectCorners == {<<0, 0>>, <<-1, -1>>}

RectOpposites == {<<width - 1, height - 1>>, <<width, 1>>}

RectMaterials == {WALL, SAND}

\* a preset with the centre it is placed at: each one reaches the grid except
\* the last
PresetInputs ==
  {<<"barrier", 1, 1>>, <<"funnel", 1, -4>>, <<"container", 20, 20>>,
   <<"hourglass", 15, 25>>, <<"maze", 20, 20>>, <<"barrier", 30, 30>>}

GapChoices == {0, 19}

\* the outcomes of the Math.random() calls a preset makes
PresetRandom(preset, x, y) ==
  IF preset = "hourglass"
    THEN {[sand |-> s, gap |-> 0] : s \in SUBSET hourglassSandCells(x, y)}
  ELSE IF preset = "maze"
    THEN {[sand |-> {}, gap |-> g] : g \in GapChoices}
  ELSE {[sand |-> {}, gap |-> 0]}

CallSet ==
  \E c \in PointInputs, value \in Materials :
    Called(set(Here, c[1], c[2], value), "set", "", ~inBounds(c[1], c[2]))

CallSwap ==
  \E i1 \in IndexInputs, i2 \in IndexInputs :
    Called(swap(Here, i1, i2), "swap", "", ~(inRange(Here, i1) /\ inRange(Here, i2)))

CallClear == Called(clear(Here), "clear", "", FALSE)

CallSetCircle ==
  \E c \in CircleCentres, material \in CircleMaterials :
    \E mask \in MaskChoices(1) :
      Called(setCircle(Here, c[1], c[2], material, 1, mask), "setCircle", "",
             material = EMPTY)

CallDrawLine ==
  \E c1 \in LineStarts, c2 \in LineEnds, material \in LineMaterials,
     thickness \in ThicknessInputs :
    Called(drawLine(Here, c1[1], c1[2], c2[1], c2[2], material, thickness),
           "drawLine", "", material = EMPTY)

CallDrawRect ==
  \E c1 \in RectCorners, c2 \in RectOpposites, material \in RectMaterials,
     filled \in BOOLEAN :
    Called(drawRect(Here, c1[1], c1[2], c2[1], c2[2], material, filled), "drawRect",
           IF filled THEN "filled" ELSE "outline", FALSE)

CallCreatePreset ==
  \E p \in PresetInputs :
    \E rnd \in PresetRandom(p[1], p[2], p[3]) :
      Called(createPreset(Here, p[1], p[2], p[3], rnd), "createPreset", p[1], FALSE)

SetGravity ==
  /\ Idle
  /\ \E g \in 1 .. MaxGravity :
       /\ g # gravityStrength
       /\ gravityStrength' = g
  /\ ev' = Event("gravity", "", <<>>, <<>>, -1)
  /\ UNCHANGED <<grid, metadata, pc, pre, visits, err, ticks, calls, pointer>>

\* ---------------------------------------------------------------- update()
\* the animation loop calls update(); limit caps the number of frames
UpdateWithin(limit) ==
  /\ Idle
  /\ ticks < limit
  /\ pc' = [phase |-> "first", k |-> 0]
  /\ pre' = [g |-> grid, m |-> metadata]
  /\ visits' = noVisits
  /\ ev' = Event("update", "", <<>>, <<>>, -1)
  /\ UNCHANGED <<grid, metadata, gravityStrength, err, ticks, calls, pointer>>

BeginUpdate == UpdateWithin(MaxTicks)

\* every row visited left to right
sweepXLeft(x0, y) == x0

\* column visited at loop counter x0 of row y
sweepX(x0, y) == IF y % 2 = 0 THEN x0 ELSE width - 1 - x0

FirstMaterials == {SAND, WATER, OIL, ACID, ICE}

SecondMaterials == {FIRE, STEAM, PLANT}

firstRule(st, material, i, x, y, gravity) ==
  CASE material = SAND -> updateSand(st, i, x, y, gravity)
    [] material = WATER -> updateWater(st, i, x, y, gravity)
    [] material = OIL -> updateOil(st, i, x, y, gravity)
    [] material = ACID -> updateAcid(st, i, x, y, gravity)
    [] material = ICE -> updateIce(st, i, x, y)
    [] OTHER -> {st}

secondRule(st, material, i, x, y) ==
  CASE material = FIRE -> updateFire(st, i, x, y)
    [] material = STEAM -> updateSteam(st, i, x, y)
    [] material = PLANT -> updatePlant(st, i, x, y)
    [] OTHER -> {st}

\* cell visited at loop counter k of the first sweep (rows bottom to top)
firstCell(k) ==
  LET y == height - 1 - (k \div width)
      x == sweepX(k % width, y)
  IN [x |-> x, y |-> y, i |-> y * width + x]

\* cell visited at loop counter k of the second sweep (rows top to bottom)
secondCell(k) ==
  LET y == k \div width
      x == sweepX(k % width, y)
  IN [x |-> x, y |-> y, i |-> y * width + x]

\* Loop iterations whose cell matches no case of the switch change nothing:
\* a step runs the loop up to and including the next iteration that
\* dispatches a rule, or to the end of the sweep.
RECURSIVE nextFirst(_, _)
nextFirst(g, k) ==
  IF k >= N THEN N
  ELSE IF g[firstCell(k).i] \in FirstMaterials THEN k
  ELSE nextFirst(g, k + 1)

RECURSIVE nextSecond(_, _)
nextSecond(g, k) ==
  IF k >= N THEN N
  ELSE IF g[secondCell(k).i] \in SecondMaterials THEN k
  ELSE nextSecond(g, k + 1)

FirstPass ==
  /\ pc.phase = "first"
  /\ LET k == nextFirst(grid, pc.k)
         c == firstCell(k)
     IN IF k >= N
          THEN /\ pc' = [phase |-> "second", k |-> 0]
               /\ ev' = Event("first", "", <<>>, <<>>, -1)
               /\ UNCHANGED <<grid, metadata, err, visits>>
          ELSE /\ \E st \in firstRule(Here, grid[c.i], c.i, c.x, c.y, gravityStrength) :
                    /\ Commit(st)
                    /\ ev' = Event("first", "", <<c.i, c.x, c.y>>, st.log, grid[c.i])
               /\ visits' = [visits EXCEPT ![metadata[c.i].oid].first = @ + 1]
               /\ pc' = [pc EXCEPT !.k = k + 1]
  /\ UNCHANGED <<gravityStrength, pre, ticks, calls, pointer>>

SecondPass ==
  /\ pc.phase = "second"
  /\ LET k == nextSecond(grid, pc.k)
         c == secondCell(k)
     IN IF k >= N
          THEN /\ pc' = [phase |-> "third", k |-> 0]
               /\ ev' = Event("second", "", <<>>, <<>>, -1)
               /\ UNCHANGED <<grid, metadata, err, visits>>
          ELSE /\ \E st \in secondRule(Here, grid[c.i], c.i, c.x, c.y) :
                    /\ Commit(st)
                    /\ ev' = Event("second", "", <<c.i, c.x, c.y>>, st.log, grid[c.i])
               /\ visits' = [visits EXCEPT ![metadata[c.i].oid].second = @ + 1]
               /\ pc' = [pc EXCEPT !.k = k + 1]
  /\ UNCHANGED <<gravityStrength, pre, ticks, calls, pointer>>

RECURSIVE temperatureFrom(_, _)
temperatureFrom(st, i) ==
  IF i >= gridLength(st) THEN st
  ELSE CHOOSE r \in {temperatureFrom(s, i + 1) : s \in {updateTemperature(st, i)}} : TRUE

\* the third sweep (it draws no random number) and the return of update()
ThirdPass ==
  /\ pc.phase = "third"
  /\ \E st \in {temperatureFrom(Here, 0)} : Commit(st)
  /\ ev' = Event("third", "", <<>>, <<>>, -1)
  /\ pc' = [phase |-> "idle", k |-> 0]
  /\ ticks' = ticks + 1
  /\ UNCHANGED <<gravityStrength, pre, visits, calls, pointer>>

Next ==
  \/ CallSet
  \/ CallSwap
  \/ CallClear
  \/ CallSetCircle
  \/ CallDrawLine
  \/ CallDrawRect
  \/ CallCreatePreset
  \/ SetGravity
  \/ BeginUpdate
  \/ FirstPass
  \/ SecondPass
  \/ ThirdPass

Spec == Init /\ [][Next]_vars

\* ------------------------------------------------------ the basic variant
\* src/js/sand-game.js: Empty, Sand, Water and Wall on one array, one sweep
basicIsEmpty(g, index) ==
  IF index < 0 \/ index >= Cardinality(DOMAIN g) THEN FALSE ELSE g[index] = EMPTY

basicIsWater(g, index) ==
  IF index < 0 \/ index >= Cardinality(DOMAIN g) THEN FALSE ELSE g[index] = WATER

RECURSIVE basicSandLoop(_, _, _, _, _, _)
basicSandLoop(g, i, x, y, k, gravity) ==
  IF k >= gravity THEN g
  ELSE LET currentY == y + k
           currentI == i + (k * width)
           below == currentI + width
           belowLeft == below - 1
           belowRight == below + 1
       IN IF currentY >= height - 1 THEN g
          ELSE IF basicIsEmpty(g, below) \/ basicIsWater(g, below)
            THEN basicSandLoop(basicSwap(g, currentI, below), i, x, y, k + 1, gravity)
          ELSE IF x > 0 /\ (basicIsEmpty(g, belowLeft) \/ basicIsWater(g, belowLeft))
            THEN basicSandLoop(basicSwap(g, currentI, belowLeft), i, x, y, k + 1, gravity)
          ELSE IF x < width - 1
                  /\ (basicIsEmpty(g, belowRight) \/ basicIsWater(g, belowRight))
            THEN basicSandLoop(basicSwap(g, currentI, belowRight), i, x, y, k + 1, gravity)
          ELSE g

\* the horizontal attempt of one sub-step: the grids it can leave, and
\* whether the particle moved, for the side tried first
basicSideways(g, currentI, currentX, leftFirst) ==
  LET left == currentI - 1
      right == currentI + 1
      canLeft == currentX > 0 /\ basicIsEmpty(g, left)
      canRight == currentX < width - 1 /\ basicIsEmpty(g, right)
  IN IF leftFirst
       THEN IF canLeft THEN <<basicSwap(g, currentI, left), TRUE>>
            ELSE IF canRight THEN <<basicSwap(g, currentI, right), TRUE>>
            ELSE <<g, FALSE>>
       ELSE IF canRight THEN <<basicSwap(g, currentI, right), TRUE>>
            ELSE IF canLeft THEN <<basicSwap(g, currentI, left), TRUE>>
            ELSE <<g, FALSE>>

RECURSIVE basicWaterLoop(_, _, _, _, _, _)
basicWaterLoop(g, i, x, y, k, gravity) ==
  IF k >= gravity THEN {g}
  ELSE LET currentY == y + k
           currentI == i + (k * width)
           currentX == x
           below == currentI + width
           belowLeft == below - 1
           belowRight == below + 1
           side(leftFirst) ==
             LET r == basicSideways(g, currentI, currentX, leftFirst)
             IN IF r[2] THEN basicWaterLoop(r[1], i, x, y, k + 1, gravity) ELSE {g}
       IN IF currentY >= height - 1 THEN {g}
          ELSE IF basicIsEmpty(g, below)
            THEN basicWaterLoop(basicSwap(g, currentI, below), i, x, y, k + 1, gravity)
          ELSE IF currentX > 0 /\ basicIsEmpty(g, belowLeft)
            THEN basicWaterLoop(basicSwap(g, currentI, belowLeft), i, x, y, k + 1, gravity)
          ELSE IF currentX < width - 1 /\ basicIsEmpty(g, belowRight)
            THEN basicWaterLoop(basicSwap(g, currentI, belowRight), i, x, y, k + 1, gravity)
          ELSE Either(side(TRUE), side(FALSE))

\* the one sweep of update(), from loop counter k on (rows bottom to top)
RECURSIVE basicUpdateFrom(_, _, _)
basicUpdateFrom(G, k, gravity) ==
  IF k >= N THEN G
  ELSE LET c == firstCell(k)
           rule(g) ==
             IF g[c.i] = SAND THEN {basicSandLoop(g, c.i, c.x, c.y, 0, gravity)}
             ELSE IF g[c.i] = WATER THEN basicWaterLoop(g, c.i, c.x, c.y, 0, gravity)
             ELSE {g}
       IN basicUpdateFrom(UNION {rule(g) : g \in G}, k + 1, gravity)

basicUpdate(g, gravity) == basicUpdateFrom({g}, 0, gravity)

\* the grids after t calls of update()
RECURSIVE basicTicks(_, _, _)
basicTicks(G, gravity, t) ==
  IF t = 0 THEN G
  ELSE basicTicks(UNION {basicUpdate(g, gravity) : g \in G}, gravity, t - 1)

\* ------------------------------------------------------ a falling grain
\* One Sand cell set on the empty grid at the chosen gravity strength, then
\* frames only.
PlaceSand ==
  /\ grid = newGrid
  /\ ticks = 0
  /\ \E c \in Cells : Called(set(Here, c[1], c[2], SAND), "set", "", FALSE)

ChooseGravity == grid = newGrid /\ ticks = 0 /\ SetGravity

BeginFallUpdate == grid # newGrid /\ UpdateWithin(MaxFallTicks)

NextFall ==
  \/ PlaceSand
  \/ ChooseGravity
  \/ BeginFallUpdate
  \/ FirstPass
  \/ SecondPass
  \/ ThirdPass

SpecFall == Init /\ [][NextFall]_vars

\* ------------------------------------------------------ a single column
\* Column 0 filled cell by cell with Sand, Water or nothing, every other
\* column with Wall, at the chosen gravity strength; then frames only.  A
\* particle of column 0 finds no cell to its side or diagonal to move to, as
\* in a grid of width 1.
ColumnMaterials == {EMPTY, SAND, WATER}

SinkSet ==
  /\ Idle
  /\ ticks = 0
  /\ calls < N
  /\ LET x == calls % width
         y == calls \div width
     IN \E value \in (IF x = 0 THEN ColumnMaterials ELSE {WALL}) :
          LET st == set(Here, x, y, value)
          IN /\ Commit(st)
             /\ ev' = Event("set", "", <<>>, st.log, 0)
  /\ calls' = calls + 1
  /\ UNCHANGED <<gravityStrength, pc, pre, visits, ticks, pointer>>

SinkGravity == calls = 0 /\ SetGravity

BeginSinkUpdate == calls = N /\ UpdateWithin(MaxSinkTicks)

NextSink ==
  \/ SinkSet
  \/ SinkGravity
  \/ BeginSinkUpdate
  \/ FirstPass
  \/ SecondPass
  \/ ThirdPass

\* the animation loop asks for a frame after every frame, and every sweep
\* is a bounded loop
SpecSink ==
  /\ Init
  /\ [][NextSink]_vars
  /\ WF_vars(BeginSinkUpdate)
  /\ WF_vars(FirstPass)
  /\ WF_vars(SecondPass)
  /\ WF_vars(ThirdPass)

\* ---------------------------------------------------------- construction
\* new Array(n) raises a RangeError for a negative n and gives an array of
\* n elements otherwise; nothing else in the constructor tests its arguments.
newArray(n, v) ==
  IF n < 0 THEN [thrown |-> TRUE, a |-> <<>>]
  ELSE [thrown |-> FALSE, a |-> [i \in 0 .. (n - 1) |-> v]]

constructor(w, h) ==
  LET g == newArray(w * h, EMPTY)
      m == newArray(w * h, 0)
  IN IF g.thrown THEN [thrown |-> TRUE, width |-> w, height |-> h, g |-> <<>>, m |-> <<>>]
     ELSE [thrown |-> FALSE, width |-> w, height |-> h, g |-> g.a,
           m |-> [i \in DOMAIN m.a |-> freshMeta(i)]]

Dims == (-MaxDim) .. MaxDim

\* this.grid = new Grid(w, h, this): the assignment happens when the
\* constructor returns
Construct ==
  /\ Idle
  /\ \E w \in Dims, h \in Dims :
       LET made == constructor(w, h)
       IN /\ ev' = Event("construct", "", <<w, h>>, <<>>, IF made.thrown THEN 1 ELSE 0)
          /\ grid' = IF made.thrown THEN grid ELSE made.g
          /\ metadata' = IF made.thrown THEN metadata ELSE made.m
  /\ UNCHANGED <<gravityStrength, pc, pre, visits, err, ticks, calls, pointer>>

SpecNew == Init /\ [][Construct]_vars

\* ------------------------------------------------------------ full scenes
\* Every cell of the grid set in index order to one of a few materials (set
\* of Empty on an Empty cell leaves it Empty), at the chosen gravity
\* strength; then frames only.
SceneSet(materials) ==
  /\ Idle
  /\ ticks = 0
  /\ calls < N
  /\ \E value \in materials :
       LET st == set(Here, calls % width, calls \div width, value)
       IN /\ Commit(st)
          /\ ev' = Event("set", "", <<>>, st.log, 0)
  /\ calls' = calls + 1
  /\ UNCHANGED <<gravityStrength, pc, pre, visits, ticks, pointer>>

BeginSceneUpdate == calls = N /\ UpdateWithin(MaxSceneTicks)

\* water with oil to push and walls to rest on
PoolMaterials == {EMPTY, WATER, OIL, WALL}

PoolSet == SceneSet(PoolMaterials)

NextPool ==
  \/ PoolSet
  \/ SinkGravity
  \/ BeginSceneUpdate
  \/ FirstPass
  \/ SecondPass
  \/ ThirdPass

SpecPool == Init /\ [][NextPool]_vars

\* sand with water to sink through and walls to slide off
DuneMaterials == {EMPTY, SAND, WATER, WALL}

NextDune ==
  \/ SceneSet(DuneMaterials)
  \/ SinkGravity
  \/ BeginSceneUpdate
  \/ FirstPass
  \/ SecondPass
  \/ ThirdPass

SpecDune == Init /\ [][NextDune]_vars

\* steam with water to fall through it
SteamMaterials == {EMPTY, WATER, STEAM}

BeginSteamUpdate == calls = N /\ UpdateWithin(MaxSteamTicks)

NextSteam ==
  \/ SceneSet(SteamMaterials)
  \/ BeginSteamUpdate
  \/ FirstPass
  \/ SecondPass
  \/ ThirdPass

SpecSteam == Init /\ [][NextSteam]_vars

\* --------------------------------------------------- lines on the grid
\* One line between any two points of the square around the grid, as the first
\* call on the Empty grid; the endpoints and the thickness are kept in ev.args.
LineCoords == -MaxCoord .. MaxCoord

DrawAnyLine ==
  \E x1 \in LineCoords, y1 \in LineCoords, x2 \in LineCoords, y2 \in LineCoords,
     thickness \in ThicknessInputs :
    LET st == drawLine(Here, x1, y1, x2, y2, WALL, thickness)
    IN /\ Idle /\ calls = 0
       /\ Commit(st)
       /\ ev' = Event("drawLine", "", <<x1, y1, x2, y2, thickness>>, st.log, 0)
       /\ calls' = calls + 1
       /\ UNCHANGED <<gravityStrength, pc, pre, visits, ticks, pointer>>

NextLine ==
  \/ DrawAnyLine
  \/ CallClear

SpecLine == Init /\ [][NextLine]_vars

\* ------------------------------------------------------ touch drawing
\* The handlers of SandGame that draw: each returns the grid state, the
\* pointer fields and whether it has thrown.  e is the event object: <<>> when
\* the caller passes none, else <<x, y, shiftKey>> in cells.  mask stands for
\* the outcomes of the probability draws of the one setCircle call made.
Tools == {"brush", "line", "rect", "circle"}

\* Math.floor(Math.sqrt(n))
floorSqrt(n) == CHOOSE r \in 0 .. n : r * r <= n /\ n < (r + 1) * (r + 1)

drawAtPosition(st, p, x, y, mask) ==
  setCircle(st, x, y, p.activeMaterial, p.brushSize,
            IF p.activeMaterial = WALL THEN Disc(p.brushSize) ELSE mask)

handleDrawStart(st, p, e, mask) ==
  LET p1 == IF p.currentTool # "brush"
              THEN [p EXCEPT !.drawingStart = <<e[1], e[2]>>] ELSE p
  IN [st |-> IF p.currentTool = "brush"
               THEN drawAtPosition(st, p, e[1], e[2], mask) ELSE st,
      p |-> p1, thrown |-> FALSE]

handleDraw(st, p, e, mask) ==
  IF p.currentTool = "brush"
    THEN [st |-> IF p.lastMouseX # -1
                   THEN drawLine(st, p.lastMouseX, p.lastMouseY, e[1], e[2],
                                 p.activeMaterial, p.brushSize)
                   ELSE drawAtPosition(st, p, e[1], e[2], mask),
          p |-> [p EXCEPT !.lastMouseX = e[1], !.lastMouseY = e[2]],
          thrown |-> FALSE]
    ELSE [st |-> st, p |-> p, thrown |-> FALSE]

\* with the rect tool the argument e.shiftKey is read before drawRect is
\* called: without an event object the read throws a TypeError
handleDrawEnd(st, p, e, mask) ==
  IF p.currentTool # "brush" /\ p.drawingStart # <<>>
    THEN LET endX == IF e # <<>> THEN e[1] ELSE p.lastMouseX
             endY == IF e # <<>> THEN e[2] ELSE p.lastMouseY
             sx == p.drawingStart[1]
             sy == p.drawingStart[2]
             dx == endX - sx
             dy == endY - sy
             done == [p EXCEPT !.drawingStart = <<>>]
         IN CASE p.currentTool = "line" ->
                   [st |-> drawLine(st, sx, sy, endX, endY, p.activeMaterial,
                                    p.brushSize),
                    p |-> done, thrown |-> FALSE]
              [] p.currentTool = "rect" ->
                   IF e = <<>>
                     THEN [st |-> st, p |-> p, thrown |-> TRUE]
                     ELSE [st |-> drawRect(st, sx, sy, endX, endY,
                                           p.activeMaterial, e[3]),
                           p |-> done, thrown |-> FALSE]
              [] p.currentTool = "circle" ->
                   [st |-> setCircle(st, sx, sy, p.activeMaterial,
                                     floorSqrt(dx * dx + dy * dy), mask),
                    p |-> done, thrown |-> FALSE]
              [] OTHER -> [st |-> st, p |-> done, thrown |-> FALSE]
    ELSE [st |-> st, p |-> p, thrown |-> FALSE]

\* a handler has run between two frames
Handled(r, op) ==
  /\ Idle
  /\ calls < MaxTouches
  /\ Commit([r.st EXCEPT !.err = r.st.err \/ r.thrown])
  /\ ev' = Event(op, pointer.currentTool, <<>>, r.st.log, IF r.thrown THEN 1 ELSE 0)
  /\ calls' = calls + 1
  /\ UNCHANGED <<gravityStrength, pc, pre, visits, ticks>>

TouchPoints == {<<0, 0>>, <<1, 2>>}

\* the masks of a disc that reaches every cell of the grid
TouchMasks == {Disc(3), {<<0, 0>>}}

SetTool ==
  /\ Idle
  /\ \E tool \in Tools :
       /\ tool # pointer.currentTool
       /\ pointer' = [pointer EXCEPT !.currentTool = tool]
  /\ ev' = Event("tool", "", <<>>, <<>>, 0)
  /\ UNCHANGED <<grid, metadata, gravityStrength, pc, pre, visits, err, ticks, calls>>

TouchStart ==
  \E c \in TouchPoints, mask \in TouchMasks :
    LET r == handleDrawStart(Here, [pointer EXCEPT !.isMouseDown = TRUE], c, mask)
    IN /\ Handled(r, "touchstart")
       /\ pointer' = r.p

TouchMove ==
  \E c \in TouchPoints, mask \in TouchMasks :
    LET r == IF pointer.isMouseDown THEN handleDraw(Here, pointer, c, mask)
             ELSE [st |-> Here, p |-> pointer, thrown |-> FALSE]
    IN /\ pointer.isMouseDown
       /\ Handled(r, "touchmove")
       /\ pointer' = r.p

TouchEnd ==
  \E mask \in TouchMasks :
    LET r == handleDrawEnd(Here, pointer, <<>>, mask)
    IN /\ Handled(r, "touchend")
       /\ pointer' = IF r.thrown THEN r.p
                     ELSE [r.p EXCEPT !.isMouseDown = FALSE,
                                      !.lastMouseX = -1, !.lastMouseY = -1]

NextTouch ==
  \/ SetTool
  \/ TouchStart
  \/ TouchMove
  \/ TouchEnd

SpecTouch == Init /\ [][NextTouch]_vars

\* ------------------------------------------------- presets on the grid
\* A preset is 41 cells wide and high: the grid shows the part of it that the
\* centre of the call puts on the grid.  The centres put on the grid a corner
\* of the outer rectangle, the place of a horizontal and of a vertical maze
\* divider, the inside of the box, and the top edge of the container at and
\* beside its opening.
PlacePreset ==
  LET centres == {<<"maze", 20, 20>>, <<"maze", 15, 8>>, <<"maze", 8, 15>>,
                  <<"maze", 15, 15>>, <<"container", 20, 20>>,
                  <<"container", 1, 20>>, <<"container", 10, 20>>}
  IN \E p \in centres :
       \E rnd \in PresetRandom(p[1], p[2], p[3]) :
         LET st == createPreset(Here, p[1], p[2], p[3], rnd)
         IN /\ Idle /\ calls < MaxCalls
            /\ Commit(st)
            /\ ev' = Event("createPreset", p[1], <<p[2], p[3]>>, st.log, 0)
            /\ calls' = calls + 1
            /\ UNCHANGED <<gravityStrength, pc, pre, visits, ticks, pointer>>

NextPreset ==
  \/ PlacePreset
  \/ CallSet
  \/ CallClear

SpecPreset == Init /\ [][NextPreset]_vars

\* --------------------------------------------------- fire and oil scenes
\* Two frames over scenes drawn with the particles that act on a Fire cell
\* by displacing it.
FireMaterials == {FIRE, OIL, SAND}

CallSetFire ==
  \E c \in Cells, value \in FireMaterials :
    Called(set(Here, c[1], c[2], value), "set", "", FALSE)

BeginFireUpdate == UpdateWithin(MaxFireTicks)

NextFire ==
  \/ CallSetFire
  \/ BeginFireUpdate
  \/ FirstPass
  \/ SecondPass
  \/ ThirdPass

SpecFire == Init /\ [][NextFire]_vars

\* ------------------------------------------------------------ properties
\* update() has just returned and nothing was called since
TickDone == Idle /\ ev.op = "third"

\* the entries of a log that are swaps, and those that are in-place writes
SwapsOf(log) == {log[k] : k \in {j \in DOMAIN log : log[j].t = "swap"}}

ConvsOf(log) == {log[k] : k \in {j \in DOMAIN log : log[j].t = "conv"}}

\* coordinates around the grid that lie outside it, indices around the array
OutCoords == (((-1) .. width) \X ((-1) .. height)) \ Cells

AnyIndex == (-1) .. N

\* C1: a tick neither moves nor removes a Wall: the cells holding Wall when
\* update() returns are exactly the cells that held Wall when it was called.
C1_WallsStay ==
  TickDone => \A i \in Indices : (pre.g[i] = WALL) <=> (grid[i] = WALL)

\* C2: for in-bounds indices canDisplace(i1, i2) is true exactly when the
\* target is Empty, or it is not Wall and the source is strictly denser.
C2_DisplacementRule ==
  \A i1 \in Indices, i2 \in Indices :
    canDisplace(Here, i1, i2) <=>
      (\/ grid[i2] = EMPTY
       \/ (grid[i2] # WALL /\ density(grid[i1]) > density(grid[i2])))

\* a sweep step in which Sand sank into Water (denser into lighter)
C2_Witness ==
  /\ ev.op = "first"
  /\ \E e \in SwapsOf(ev.log) : e.ma = SAND /\ e.mb = WATER

\* C3: within one tick no particle has its rule run twice in a sweep, and a
\* Fire, Steam or Acid particle that is still the same material when update()
\* returns has lost exactly one unit of lifespan.
C3_SingleUpdate ==
  /\ \A o \in Indices : visits[o].first <= 1 /\ visits[o].second <= 1
  /\ TickDone =>
       \A o \in Indices :
         LET a == posOf(pre.m, o)
             b == posOf(metadata, o)
         IN (pre.g[a] \in {FIRE, STEAM, ACID} /\ grid[b] = pre.g[a])
              => metadata[b].life = pre.m[a].life - 1

\* C4: a Fire that is still Fire after a tick has lost exactly one unit of
\* lifespan in that tick, however it rose or was displaced, so that a Fire
\* created with lifespan L is gone at the L-th tick and not later.
C4_FireCountdown ==
  TickDone =>
    \A o \in Indices :
      LET a == posOf(pre.m, o)
          b == posOf(metadata, o)
      IN (pre.g[a] = FIRE /\ grid[b] = FIRE)
           => metadata[b].life = pre.m[a].life - 1

\* C5: setCircle, drawLine and drawRect (filled or outline) leave every cell
\* that was non-Empty before the call with its material and metadata.
C5_RasterizerEmptyOnly ==
  [][(calls' = calls + 1 /\ ev'.op \in {"setCircle", "drawLine", "drawRect"})
       => \A i \in Indices :
            grid[i] # EMPTY => (grid'[i] = grid[i] /\ metadata'[i] = metadata[i])]_vars

\* C6: createPreset changes no cell that was non-Empty before the call.
C6_PresetEmptyOnly ==
  [][(calls' = calls + 1 /\ ev'.op = "createPreset")
       => \A i \in Indices :
            grid[i] # EMPTY => (grid'[i] = grid[i] /\ metadata'[i] = metadata[i])]_vars

\* C7: swap(i, j) twice restores the material array and the metadata array,
\* for indices in range or not, in both variants of the cell store.
C7_SwapInvolution ==
  Idle =>
    \A i \in AnyIndex, j \in AnyIndex :
      LET twice == swap(swap(Here, i, j), i, j)
      IN /\ twice.g = grid
         /\ twice.m = metadata
         /\ ~twice.err
         /\ basicSwap(basicSwap(grid, i, j), i, j) = grid

\* swap was called on two cells in range and exchanged a particle
C7_Witness ==
  /\ ev.op = "swap"
  /\ \E e \in SwapsOf(ev.log) : e.a # e.b /\ e.ma # e.mb

\* C8: in every rule step a particle's material stays with its metadata
\* object wherever swaps take it, no metadata object is lost or duplicated,
\* cells that no swap of the step names keep their object, and swap exchanges
\* the two cells it is given and changes no other.
C8_MetadataTravels ==
  [][ev'.op \in {"first", "second"} =>
       /\ \A i \in Indices, j \in Indices :
            LET s == swap(Here, i, j)
            IN /\ s.g = [grid EXCEPT ![i] = grid[j], ![j] = grid[i]]
               /\ s.m = [metadata EXCEPT ![i] = metadata[j], ![j] = metadata[i]]
       /\ DOMAIN metadata' = Indices
       /\ {metadata'[i].oid : i \in Indices} = Indices
       /\ \A o \in Indices :
            o \notin {e.o : e \in ConvsOf(ev'.log)}
              => grid'[posOf(metadata', o)] = grid[posOf(metadata, o)]
       /\ \A i \in Indices :
            (\A e \in SwapsOf(ev'.log) : e.a # i /\ e.b # i)
              => metadata'[i].oid = metadata[i].oid]_vars

\* a Fire rose in the second sweep and its lifespan record is with it
C8_Witness ==
  /\ ev.op = "second"
  /\ \E e \in SwapsOf(ev.log) :
       /\ e.ma = FIRE
       /\ e.a # e.b
       /\ grid[posOf(metadata, e.o)] = FIRE
       /\ posOf(metadata, e.o) = e.b
       /\ metadata[e.b].life = lifespan(FIRE) - 1

\* C9: outside the grid get answers -1, which is no material id, set changes
\* nothing, and swap with an index outside the array changes nothing; none of
\* them raises an error.  Both variants of the cell store.
C9_OutOfBounds ==
  Idle =>
    /\ \A c \in OutCoords :
         /\ get(Here, c[1], c[2]) = -1
         /\ get(Here, c[1], c[2]) \notin Materials
         /\ basicGet(grid, c[1], c[2]) = -1
         /\ \A value \in Materials :
              /\ set(Here, c[1], c[2], value) = Here
              /\ basicSet(grid, c[1], c[2], value) = grid
    /\ \A i1 \in AnyIndex, i2 \in AnyIndex :
         (i1 \notin Indices \/ i2 \notin Indices)
           => /\ swap(Here, i1, i2) = Here
              /\ basicSwap(grid, i1, i2) = grid

\* set or swap was called outside the grid on a grid that holds particles
C9_Witness ==
  /\ ev.op \in {"set", "swap"}
  /\ ev.mat = 1
  /\ grid # newGrid
  /\ ~err

\* C10: the material array and the metadata array have length width * height,
\* every index holds a material id in 0 .. 9 and a metadata record with a
\* temperature and a lifespan.
C10_GridShape ==
  /\ DOMAIN grid = Indices
  /\ DOMAIN metadata = Indices
  /\ \A i \in Indices :
       /\ grid[i] \in Materials
       /\ DOMAIN metadata[i] = {"life", "temp", "oid"}
       /\ metadata[i].life \in Int
       /\ metadata[i].temp \in Int

\* a frame has run on a grid drawn with two calls, one of them a preset
C10_Witness ==
  /\ TickDone
  /\ calls = MaxCalls
  /\ grid # pre.g
  /\ \E i \in Indices : grid[i] = WALL

\* total temperature of the non-Empty cells of a working state
RECURSIVE heatTotal(_, _)
heatTotal(st, i) ==
  IF i >= N THEN 0
  ELSE (IF st.g[i] # EMPTY THEN st.m[i].temp ELSE 0) + heatTotal(st, i + 1)

\* the neighbour-exchange part of updateTemperature(i), without the relaxation
exchangePart(st, i) ==
  IF st.g[i] = EMPTY THEN updateTemperature(st, i)
  ELSE exchangeFrom(st, i, getNeighborIndices(JsRem(i, width), FloorDiv(i, width)), 1)

\* the exchange part keeps the total and the Empty cells, at every cell of
\* the temperature sweep from cell i on
RECURSIVE conservedFrom(_, _)
conservedFrom(st, i) ==
  IF i >= N THEN TRUE
  ELSE LET s == exchangePart(st, i)
       IN /\ heatTotal(s, 0) = heatTotal(st, 0)
          /\ \A j \in Indices : st.g[j] = EMPTY => s.m[j] = st.m[j]
          /\ s.g = st.g
          /\ conservedFrom(updateTemperature(st, i), i + 1)

\* C11: in the temperature sweep of a tick, the neighbour exchanges of each
\* cell leave the sum of the temperatures of the non-Empty cells unchanged
\* (what one cell loses the other gains), before the relaxation toward 20
\* degrees, and they change the temperature of no Empty cell.
C11_HeatConserved ==
  pc.phase = "third" => conservedFrom(Here, 0)

\* the temperature sweep is about to run and some cell will exchange heat
\* with a neighbour
C11_Witness ==
  /\ pc.phase = "third"
  /\ \E i \in Indices : exchangePart(Here, i).m # metadata

\* the cells of the grid whose material or metadata differ between two
\* working states, and between two arrays of the basic variant
changedCells(st, s) ==
  {c \in Cells : LET i == c[2] * width + c[1]
                 IN s.g[i] # st.g[i] \/ s.m[i] # st.m[i]}

basicChanged(g, h) == {c \in Cells : h[c[2] * width + c[1]] # g[c[2] * width + c[1]]}

\* a call ended without an error and left the arrays at their length
safeResult(s) == ~s.err /\ DOMAIN s.g = Indices /\ DOMAIN s.m = Indices

inDisc(c, x, y, radius) ==
  (c[1] - x) * (c[1] - x) + (c[2] - y) * (c[2] - y) <= radius * radius

\* within `thickness` of a point of the box spanned by the two end points
nearSegment(c, x1, y1, x2, y2, thickness) ==
  \E px \in Min(x1, x2) .. Max(x1, x2), py \in Min(y1, y2) .. Max(y1, y2) :
    inDisc(c, px, py, thickness)

inRect(c, x1, y1, x2, y2) ==
  /\ c[1] >= Min(x1, x2) /\ c[1] <= Max(x1, x2)
  /\ c[2] >= Min(y1, y2) /\ c[2] <= Max(y1, y2)

onOutline(c, x1, y1, x2, y2) ==
  /\ inRect(c, x1, y1, x2, y2)
  /\ (c[1] \in {x1, x2} \/ c[2] \in {y1, y2})

\* C12: setCircle, drawLine and drawRect with coordinates partly or wholly
\* outside the grid raise no error, keep the arrays at width * height cells,
\* and change only cells of the grid whose (x, y) lies in the disc, along the
\* line or in (on the outline of) the rectangle asked for; a shape that has
\* no cell in the grid changes nothing.  Both variants of setCircle, in every
\* state in which the input layer can make the call.
C12_EdgeSafeDrawing ==
  (Idle /\ calls < MaxCalls) =>
    /\ \A c \in CircleCentres, material \in CircleMaterials, mask \in MaskChoices(1) :
         LET s == setCircle(Here, c[1], c[2], material, 1, mask)
             h == basicSetCircle(grid, c[1], c[2], material, 1, mask)
         IN /\ safeResult(s)
            /\ \A p \in changedCells(Here, s) : inDisc(p, c[1], c[2], 1)
            /\ DOMAIN h = Indices
            /\ \A p \in basicChanged(grid, h) : inDisc(p, c[1], c[2], 1)
    /\ \A c1 \in LineStarts, c2 \in LineEnds, material \in LineMaterials,
          thickness \in ThicknessInputs :
         LET s == drawLine(Here, c1[1], c1[2], c2[1], c2[2], material, thickness)
         IN /\ safeResult(s)
            /\ \A p \in changedCells(Here, s) :
                 nearSegment(p, c1[1], c1[2], c2[1], c2[2], thickness)
    /\ \A c1 \in RectCorners, c2 \in RectOpposites, material \in RectMaterials :
         LET f == drawRect(Here, c1[1], c1[2], c2[1], c2[2], material, TRUE)
             o == drawRect(Here, c1[1], c1[2], c2[1], c2[2], material, FALSE)
         IN /\ safeResult(f)
            /\ safeResult(o)
            /\ \A p \in changedCells(Here, f) : inRect(p, c1[1], c1[2], c2[1], c2[2])
            /\ \A p \in changedCells(Here, o) : onOutline(p, c1[1], c1[2], c2[1], c2[2])
    /\ setCircle(Here, -2, -2, SAND, 1, Disc(1)) = Here
    /\ basicSetCircle(grid, -2, -2, SAND, 1, Disc(1)) = grid

\* a disc centred one column right of the grid was stamped on a grid that
\* holds particles, and wrote the one cell of it that lies in the grid
C12_Witness ==
  /\ ev.op = "setCircle"
  /\ Len(ev.log) = 1
  /\ ev.log[1].a = 1 * width + (width - 1)
  /\ ev.log[1].mb = SAND
  /\ calls = 2
  /\ \E i \in Indices : i # ev.log[1].a /\ grid[i] # EMPTY

\* the grid that is Empty except for Sand at (x, y)
sandAt(x, y) == [i \in Indices |-> IF i = y * width + x THEN SAND ELSE EMPTY]

\* C13: a single Sand cell set at (x, y0) on an empty grid is, after t ticks
\* at gravity strength G, at column x and row min(y0 + G * t, height - 1),
\* and every other cell is Empty.  The metadata record set with the Sand
\* carries the index it was set at.  The basic variant gives the same grids.
C13_SandFreeFall ==
  (Idle /\ grid # newGrid) =>
    \E s \in Indices :
      LET x0 == metadata[s].oid % width
          y0 == metadata[s].oid \div width
      IN /\ grid = sandAt(x0, Min(y0 + gravityStrength * ticks, height - 1))
         /\ grid[s] = SAND
         /\ ticks = 0 =>
              \A t \in 0 .. MaxFallTicks :
                basicTicks({grid}, gravityStrength, t)
                  = {sandAt(x0, Min(y0 + gravityStrength * t, height - 1))}

\* a grain set on the top row fell a row a tick to the bottom row and stayed
C13_Witness ==
  /\ Idle
  /\ ticks = MaxFallTicks
  /\ gravityStrength = 1
  /\ \E x \in 0 .. (width - 1) :
       /\ grid = sandAt(x, height - 1)
       /\ metadata[(height - 1) * width + x].oid = x

\* column 0 is filled and walled in
ColumnBuilt == calls = N

\* in column 0 of an array, every Sand cell is below every Water cell
sortedColumn(g) ==
  \A ya \in 0 .. (height - 1), yb \in 0 .. (height - 1) :
    (g[ya * width] = SAND /\ g[yb * width] = WATER) => ya > yb

\* C14: a single column holding any arrangement of Sand and Water at ambient
\* temperature reaches, under repeated ticks, a state in which every Sand
\* cell is below every Water cell, and from a state with that ordering every
\* later state has it.
C14_DensitySinking ==
  /\ ColumnBuilt ~> sortedColumn(grid)
  /\ [](ColumnBuilt /\ sortedColumn(grid) => [](sortedColumn(grid)))

\* a tick began with Sand above Water and ended with all Sand below all Water
C14_Witness ==
  /\ TickDone
  /\ ColumnBuilt
  /\ ~sortedColumn(pre.g)
  /\ sortedColumn(grid)
  /\ \E ya \in 0 .. (height - 1), yb \in 0 .. (height - 1) :
       grid[ya * width] = SAND /\ grid[yb * width] = WATER

\* C15: a Grid constructed with width <= 0 or height <= 0 fails at
\* construction: the constructor throws and no grid is made.
C15_InvalidRejected ==
  (ev.op = "construct" /\ (ev.args[1] <= 0 \/ ev.args[2] <= 0)) => ev.mat = 1

\* a step that invoked a rule in the first, or in the second, material sweep
firstDispatch(e) == e.op = "first" /\ e.args # <<>>

secondDispatch(e) == e.op = "second" /\ e.args # <<>>

\* within a row, cell b = <<i, x, y>> comes after cell a in the direction of
\* the row: left to right for an even y, right to left for an odd y
laterInRow(a, b) ==
  a[3] = b[3] /\ (IF a[3] % 2 = 0 THEN b[2] > a[2] ELSE b[2] < a[2])

\* C16: in a tick every rule invocation of the first sweep (Sand, Water, Oil,
\* Acid, Ice; rows bottom to top) comes before every invocation of the second
\* sweep (Fire, Steam, Plant; rows top to bottom), and the temperature sweep
\* comes after both; in both material sweeps a row with even y is visited
\* left to right and a row with odd y right to left.
C16_PassOrdering ==
  [][/\ firstDispatch(ev') =>
          /\ ev.op = "update" \/ firstDispatch(ev)
          /\ ev'.mat \in FirstMaterials
          /\ firstDispatch(ev) => (ev'.args[3] < ev.args[3] \/ laterInRow(ev.args, ev'.args))
     /\ secondDispatch(ev') =>
          /\ (ev.op = "first" /\ ev.args = <<>>) \/ secondDispatch(ev)
          /\ ev'.mat \in SecondMaterials
          /\ secondDispatch(ev) => (ev'.args[3] > ev.args[3] \/ laterInRow(ev.args, ev'.args))
     /\ (ev'.op = "first" /\ ev'.args = <<>>) => (ev.op = "update" \/ firstDispatch(ev))
     /\ (ev'.op = "second" /\ ev'.args = <<>>) =>
          ((ev.op = "first" /\ ev.args = <<>>) \/ secondDispatch(ev))
     /\ ev'.op = "third" => (ev.op = "second" /\ ev.args = <<>>)
     /\ (ev'.op \notin {"first", "second", "third"} /\ ev' # ev) => Idle]_vars

\* the rules of two particles that began the tick in the same odd row ran in
\* the first sweep, and then a rule of the second sweep
C16_Witness ==
  /\ secondDispatch(ev)
  /\ \E o \in Indices, p \in Indices :
       LET a == posOf(pre.m, o)
           b == posOf(pre.m, p)
       IN /\ a # b
          /\ visits[o].first = 1
          /\ visits[p].first = 1
          /\ pre.g[a] \in FirstMaterials
          /\ pre.g[b] \in FirstMaterials
          /\ a \div width = b \div width
          /\ (a \div width) % 2 = 1

\* every Fire cell of a working state has a lifespan in 1 .. 100 and every
\* Steam cell one in 1 .. 200
livesCurrent(s) ==
  \A j \in Indices :
    /\ s.g[j] = FIRE => s.m[j].life \in 1 .. 100
    /\ s.g[j] = STEAM => s.m[j].life \in 1 .. 200

\* lifespans a Fire or Steam particle has in its last two ticks
LastLives == {1, 2}

\* C17: in every state between ticks, whatever was stamped, preset or
\* updated before, every Fire cell has a lifespan in 1 .. 100 and every Steam
\* cell one in 1 .. 200; and the rule of a Fire or Steam particle in its last
\* ticks leaves no Fire or Steam cell outside these ranges.
C17_LivesCurrent ==
  Idle =>
    /\ livesCurrent(Here)
    /\ \A i \in Indices, life \in LastLives :
         LET st == [Here EXCEPT !.m[i].life = life]
             x == i % width
             y == i \div width
         IN /\ grid[i] = FIRE => \A s \in updateFire(st, i, x, y) : livesCurrent(s)
            /\ grid[i] = STEAM => \A s \in updateSteam(st, i, x, y) : livesCurrent(s)

\* a tick has aged a Fire cell and a Steam cell stands in the grid
C17_Witness ==
  /\ TickDone
  /\ \E i \in Indices : grid[i] = FIRE /\ metadata[i].life = 99
  /\ \E i \in Indices : grid[i] = STEAM

\* the cell at index i of working state s has the material and, where the
\* kind says so, the temperature (in degrees) and the lifespan given
cellIs(s, i, material, degrees, life) ==
  /\ s.g[i] = material
  /\ degrees # -1 => s.m[i].temp = degrees * Deg
  /\ s.m[i].life = life

\* two working states agree on every cell but the one at index i
sameElsewhere(st, s, i) ==
  /\ DOMAIN s.g = DOMAIN st.g
  /\ DOMAIN s.m = DOMAIN st.m
  /\ \A j \in DOMAIN st.g : j # i => (s.g[j] = st.g[j] /\ s.m[j] = st.m[j])

\* C18: for (x, y) in the grid, set(x, y, Fire) leaves the cell Fire at 400
\* degrees with lifespan 100, set(x, y, Steam) leaves it Steam at 110 degrees
\* with lifespan 200, set(x, y, Acid) leaves it Acid with lifespan 500, and
\* set of any material changes the material and metadata of no other cell.
C18_SetInitialises ==
  Idle =>
    \A c \in Cells, value \in Materials :
      LET i == c[2] * width + c[1]
          s == set(Here, c[1], c[2], value)
      IN /\ ~s.err
         /\ s.g[i] = value
         /\ sameElsewhere(Here, s, i)
         /\ value = FIRE => cellIs(s, i, FIRE, 400, 100)
         /\ value = STEAM => cellIs(s, i, STEAM, 110, 200)
         /\ value = ACID => cellIs(s, i, ACID, -1, 500)

\* set has just written Steam over a particle, on a grid that holds another
C18_Witness ==
  /\ ev.op = "set"
  /\ Len(ev.log) = 1
  /\ ev.log[1].mb = STEAM
  /\ ev.log[1].ma \notin {EMPTY, STEAM}
  /\ metadata[ev.log[1].a].life = 200
  /\ \E j \in Indices : j # ev.log[1].a /\ grid[j] # EMPTY

isSwapEvent(e) == e.t = "swap"

\* C19: in one invocation of updateSand, updateWater, updateOil or
\* updateAcid, the cell swapped away in a sub-step g >= 1 is the cell the
\* particle was moved to in sub-step g - 1, and it holds that particle.
C19_SubStepsFollow ==
  (firstDispatch(ev) /\ ev.mat \in {SAND, WATER, OIL, ACID}) =>
    LET swaps == SelectSeq(ev.log, isSwapEvent)
    IN \A k \in 1 .. (Len(swaps) - 1) :
         /\ swaps[k + 1].a = swaps[k].b
         /\ swaps[k + 1].o = swaps[k].o

\* the particle at cell (x, y), index i, can move neither down nor diagonally
\* down: it is on the bottom row or can displace none of the three cells
blockedBelow(st, i, x, y) ==
  \/ y >= height - 1
  \/ /\ ~canDisplace(st, i, i + width)
     /\ ~(x > 0 /\ canDisplace(st, i, i + width - 1))
     /\ ~(x < width - 1 /\ canDisplace(st, i, i + width + 1))

emptyBeside(st, i, x) ==
  \/ x > 0 /\ st.g[i - 1] = EMPTY
  \/ x < width - 1 /\ st.g[i + 1] = EMPTY

\* C20: when the rule of a Water cell runs and the cell can move neither
\* down nor diagonally down (or is on the bottom row) and a cell beside it
\* is Empty, the Water moves into the cell to its left or to its right.
C20_WaterSpreads ==
  [][(firstDispatch(ev') /\ ev'.mat = WATER) =>
       LET i == ev'.args[1]
           x == ev'.args[2]
           y == ev'.args[3]
           swaps == SelectSeq(ev'.log, isSwapEvent)
       IN (blockedBelow(Here, i, x, y) /\ emptyBeside(Here, i, x)) =>
            /\ Len(swaps) >= 1
            /\ swaps[1].a = i
            /\ swaps[1].b \in {i - 1, i + 1}
            /\ swaps[1].mb = EMPTY]_vars

\* C21: whenever updateWater swaps a Water cell with the cell to its left or
\* right, that cell held Empty before the swap.
C21_WaterSidewaysEmpty ==
  (firstDispatch(ev) /\ ev.mat = WATER) =>
    \A e \in SwapsOf(ev.log) :
      (e.ma = WATER /\ e.b \in {e.a - 1, e.a + 1}) => e.mb = EMPTY

\* C22: in updateOil a cell is turned into Fire only if it holds Oil, and in
\* updateWater a cell is turned into Ice only if it holds Water and into
\* Steam only if it holds Water (or Fire, which Water extinguishes to Steam).
C22_PhaseChangeOwnCell ==
  firstDispatch(ev) =>
    \A e \in ConvsOf(ev.log) :
      /\ (ev.mat = OIL /\ e.mb = FIRE) => e.ma = OIL
      /\ (ev.mat = WATER /\ e.mb = ICE) => e.ma = WATER
      /\ (ev.mat = WATER /\ e.mb = STEAM) => e.ma \in {WATER, FIRE}

\* C23: the row of a Sand particle when update() returns exceeds its row
\* when update() was called by at most the gravity strength.
C23_SandFallBound ==
  TickDone =>
    \A o \in Indices :
      LET a == posOf(pre.m, o)
          b == posOf(metadata, o)
      IN (pre.g[a] = SAND /\ grid[b] = SAND)
           => (b \div width) - (a \div width) <= gravityStrength

\* at gravity strength 2 a tick moved one Sand particle two rows down and
\* another one row down
C23_Witness ==
  /\ TickDone
  /\ gravityStrength = 2
  /\ \E o \in Indices, p \in Indices :
       LET a == posOf(pre.m, o)
           b == posOf(metadata, o)
           c == posOf(pre.m, p)
           d == posOf(metadata, p)
       IN /\ pre.g[a] = SAND /\ grid[b] = SAND /\ (b \div width) - (a \div width) = 2
          /\ pre.g[c] = SAND /\ grid[d] = SAND /\ (d \div width) - (c \div width) = 1

\* the rule of a Fire cell has just written Steam into an Empty cell
steamSpawned(e) ==
  /\ secondDispatch(e)
  /\ e.mat = FIRE
  /\ \E c \in ConvsOf(e.log) : c.ma = EMPTY /\ c.mb = STEAM

\* no rule invocation of a Fire cell writes Steam into an Empty cell
NoSteamSpawn == ~steamSpawned(ev)

\* C24: when the rule of a living Fire cell runs with an Empty cell directly
\* above it, one of its outcomes (the 5% branch) writes Steam into an Empty
\* cell: the steam-spawn branch can be taken.
C24_FireSpawnsSteam ==
  pc.phase = "second" =>
    LET k == nextSecond(grid, pc.k)
        c == secondCell(k)
    IN (/\ k < N
        /\ grid[c.i] = FIRE
        /\ metadata[c.i].life > 1
        /\ c.y > 0
        /\ grid[c.i - width] = EMPTY)
         => \E s \in updateFire(Here, c.i, c.x, c.y) :
              \E e \in ConvsOf(s.log) : e.ma = EMPTY /\ e.mb = STEAM

\* C25: after the rule of a living Fire cell has run, every cell of the grid
\* in the 8-neighbourhood of the Fire's position, Empty or not, is 5 degrees
\* warmer than its metadata record was before (or has been ignited, at 400).
C25_FireHeatsAll ==
  [][(secondDispatch(ev') /\ ev'.mat = FIRE /\ metadata[ev'.args[1]].life > 1) =>
       LET p == posOf(metadata', metadata[ev'.args[1]].oid)
           nbrs == getNeighborIndices(p % width, p \div width)
       IN \A k \in 1 .. Len(nbrs) :
            LET n == nbrs[k]
                before == metadata[posOf(metadata, metadata'[n].oid)].temp
            IN \/ metadata'[n].temp = before + 5 * Deg
               \/ (grid'[n] = FIRE /\ metadata'[n].temp = 400 * Deg)]_vars

\* C26: no rule invocation of a tick relocates an Ice or Plant particle: no
\* swap of two different cells has Ice or Plant on either side.
C26_StaticStay ==
  (ev.op \in {"first", "second"}) =>
    \A e \in SwapsOf(ev.log) :
      e.a # e.b => (e.ma \notin {ICE, PLANT} /\ e.mb \notin {ICE, PLANT})

grewInto(e) == {c \in ConvsOf(e.log) : c.mb = PLANT}

\* C28: a rule invocation of a tick turns a cell into Plant only when it is
\* the rule of a Plant cell that has a Water cell in its 8-neighbourhood at
\* that moment, and the cell turned is an Empty cell of the 8-neighbourhood of
\* that Plant cell; no other cell of the grid changes its material by growth.
C28_PlantGrowth ==
  [][(ev'.op \in {"first", "second"}) =>
       \A c \in grewInto(ev') :
         /\ secondDispatch(ev') /\ ev'.mat = PLANT
         /\ grid[ev'.args[1]] = PLANT
         /\ isNearMaterial(Here, ev'.args[2], ev'.args[3], WATER)
         /\ c.ma = EMPTY /\ grid[c.a] = EMPTY
         /\ \E k \in 1 .. Len(getNeighborIndices(ev'.args[2], ev'.args[3])) :
              getNeighborIndices(ev'.args[2], ev'.args[3])[k] = c.a
         /\ \A j \in Indices \ {c.a, ev'.args[1]} : grid'[j] = grid[j]]_vars

C28_Witness ==
  /\ secondDispatch(ev) /\ ev.mat = PLANT
  /\ \E c \in grewInto(ev) : grid[c.a] = PLANT /\ c.a # ev.args[1]
  /\ isNearMaterial(Here, ev.args[2], ev.args[3], WATER)

\* the cells of the grid strictly inside the 41 x 41 box centred at <<x, y>>
insideBox(x, y) ==
  {c \in Cells : /\ x - 20 < c[1] /\ c[1] < x + 20
                 /\ y - 20 < c[2] /\ c[2] < y + 20}

\* a maze divider, at -20 + (40 / 3) * k from the centre, passes through one
\* of the rows (or columns) lo .. hi
dividerIn(centre, lo, hi) ==
  \E k \in {1, 2}, r \in lo .. hi :
    3 * r <= 3 * (centre - 20) + 40 * k /\ 3 * (centre - 20) + 40 * k < 3 * (r + 1)

\* C29: after createPreset('maze', x, y) as the first call on the Empty grid,
\* with the whole grid strictly inside the outer rectangle and a divider
\* passing through the grid outside its gap, the grid holds a Wall cell.
C29_MazeDividers ==
  (/\ ev.op = "createPreset" /\ ev.name = "maze" /\ ev.args # <<>> /\ calls = 1
   /\ insideBox(ev.args[1], ev.args[2]) = Cells
   /\ \/ dividerIn(ev.args[2], 0, height - 1)
      \/ dividerIn(ev.args[1], 0, width - 1))
    => \E c \in Cells : grid[c[2] * width + c[1]] = WALL

\* C30: after createPreset('container', x, y) as the first call on the Empty
\* grid, the cells of the top edge from x - 5 to x + 5 are Empty and every
\* other cell of the border of the rectangle is Wall.
C30_ContainerOpening ==
  (ev.op = "createPreset" /\ ev.name = "container" /\ ev.args # <<>> /\ calls = 1) =>
    LET x == ev.args[1]
        y == ev.args[2]
    IN \A c \in Cells :
         LET onBorder == /\ x - 20 <= c[1] /\ c[1] <= x + 20
                         /\ y - 20 <= c[2] /\ c[2] <= y + 20
                         /\ (c[1] \in {x - 20, x + 20} \/ c[2] \in {y - 20, y + 20})
             opening == c[2] = y - 20 /\ x - 5 <= c[1] /\ c[1] <= x + 5
         IN /\ opening => grid[c[2] * width + c[1]] = EMPTY
            /\ (onBorder /\ ~opening) => grid[c[2] * width + c[1]] = WALL

lineDrawn(e) == e.op = "drawLine" /\ Len(e.args) = 5

\* C31: drawLine between integer endpoints ends, having stamped exactly
\* max(|x2 - x1|, |y2 - y1|) + 1 centres: the first is <<x1, y1>>, the last is
\* <<x2, y2>>, consecutive centres differ by at most 1 in x and in y, and the
\* cells of the Empty grid that hold the material afterwards are those within
\* the thickness of a centre.
C31_LineConnected ==
  lineDrawn(ev) =>
    LET x1 == ev.args[1]
        y1 == ev.args[2]
        x2 == ev.args[3]
        y2 == ev.args[4]
        centres == lineCentres(x1, y1, x2, y2)
        stamped == {<<centres[k][1] + d[1], centres[k][2] + d[2]>> :
                      k \in 1 .. Len(centres), d \in Disc(ev.args[5])}
    IN /\ Len(centres) = Max(Abs(x2 - x1), Abs(y2 - y1)) + 1
       /\ centres[1] = <<x1, y1>>
       /\ centres[Len(centres)] = <<x2, y2>>
       /\ \A k \in 1 .. (Len(centres) - 1) :
            /\ Abs(centres[k + 1][1] - centres[k][1]) <= 1
            /\ Abs(centres[k + 1][2] - centres[k][2]) <= 1
       /\ \A c \in Cells : (grid[c[2] * width + c[1]] = WALL) <=> (c \in stamped)

C31_Witness ==
  /\ lineDrawn(ev)
  /\ Abs(ev.args[3] - ev.args[1]) = 2 * MaxCoord
  /\ Abs(ev.args[4] - ev.args[2]) = 1
  /\ \E c \in Cells : grid[c[2] * width + c[1]] = WALL

colOf(i) == i % width

rowOf(i) == i \div width

\* the cells a rule dispatched at <<x, y>> may touch: its own cell in each
\* sub-step of the gravity loop and the in-bounds Moore neighbours of it
nearRule(i, x, y) ==
  /\ i \in Indices
  /\ Abs(colOf(i) - x) <= 1
  /\ y - 1 <= rowOf(i) /\ rowOf(i) <= y + gravityStrength

countOf(g, material) == Cardinality({i \in DOMAIN g : g[i] = material})

sceneDrawn == Idle /\ calls = N /\ ticks = 0

\* C33: for every grid of Empty, Sand, Water and Wall and every gravity from 0
\* on, every outcome of any number of update() calls of the basic variant
\* holds as many Sand, Water, Wall and Empty cells as the grid it started from.
C33_BasicConserves ==
  sceneDrawn =>
    \A gravity \in 0 .. MaxGravity, t \in 0 .. MaxFallTicks :
      \A h \in basicTicks({grid}, gravity, t) :
        /\ DOMAIN h = DOMAIN grid
        /\ \A material \in DuneMaterials : countOf(h, material) = countOf(grid, material)

C33_Witness ==
  /\ sceneDrawn
  /\ \A material \in DuneMaterials : countOf(grid, material) >= 1
  /\ \E h \in basicTicks({grid}, gravityStrength, 2) :
       /\ h \notin basicUpdate(grid, gravityStrength)
       /\ \E i \in Indices : grid[i] = SAND /\ h[i] = WATER

\* Sand cells of g in row r and below
sandBelow(g, r) == Cardinality({i \in DOMAIN g : g[i] = SAND /\ rowOf(i) >= r})

\* the basic variant has no particle identity: no Sand has risen from g to h
\* when no row has fewer Sand cells at or below it in h than in g
basicSandSettles(g, h) == \A r \in 0 .. (height - 1) : sandBelow(h, r) >= sandBelow(g, r)

\* the outcomes of the basic rule dispatched at the k-th cell of the sweep
basicRuleAt(g, k, gravity) ==
  LET c == firstCell(k)
  IN IF g[c.i] = SAND THEN {basicSandLoop(g, c.i, c.x, c.y, 0, gravity)}
     ELSE IF g[c.i] = WATER THEN basicWaterLoop(g, c.i, c.x, c.y, 0, gravity)
     ELSE {g}

C34_BasicPart ==
  sceneDrawn =>
    \A gravity \in 1 .. MaxGravity :
      /\ \A k \in 0 .. (N - 1) :
           \A h \in basicRuleAt(grid, k, gravity) : basicSandSettles(grid, h)
      /\ \A h \in basicUpdate(grid, gravity) : basicSandSettles(grid, h)

C34_EnhancedPart ==
  TickDone =>
    \A o \in Indices :
      LET a == posOf(pre.m, o)
          b == posOf(metadata, o)
      IN (pre.g[a] = SAND /\ grid[b] = SAND) => rowOf(b) >= rowOf(a)

\* C34: in both variants, for every grid and every gravity from 1 on, no Sand
\* particle is in a higher row after a tick than before it.
C34_SandNeverRises == C34_EnhancedPart /\ C34_BasicPart

untouched(st) == st.g = grid /\ st.m = metadata /\ ~st.err

erased(e) == e.op \in {"setCircle", "drawLine"} /\ e.mat = 1

C36_EmptyAmbient ==
  \A i \in Indices : grid[i] = EMPTY => metadata[i].temp = Ambient

\* C37: when a touchstart is followed by a touchend, with any current tool,
\* the touchend handler raises no error and leaves isMouseDown false,
\* drawingStart null and lastMouseX = lastMouseY = -1.
C37_TouchEndSafe ==
  [][(ev.op = "touchstart" /\ ev'.op = "touchend" /\ ~err) =>
       /\ ~err'
       /\ pointer'.isMouseDown = FALSE
       /\ pointer'.drawingStart = <<>>
       /\ pointer'.lastMouseX = -1
       /\ pointer'.lastMouseY = -1]_vars

\* the grid a tick started from holds only the four basic materials, all at
\* the ambient temperature
basicScene(st) ==
  /\ \A i \in Indices : st.g[i] \in DuneMaterials
  /\ \A i \in Indices : st.m[i].temp = Ambient

\* C38: from one grid of Empty, Sand, Water and Wall at 20 degrees and with
\* every left/right choice resolved alike, one update() of the enhanced
\* variant leaves the material array one update() of the basic variant
\* leaves, for every gravity from 1 on: so each outcome of the enhanced tick
\* is among the outcomes of the basic update() from the same grid.
C38_VariantsAgree ==
  (TickDone /\ basicScene(pre) /\ gravityStrength >= 1) =>
    grid \in basicUpdate(pre.g, gravityStrength)

====
